---- MODULE Spec2Model ----
(***************************************************************************)
(* Batch scripts of the IMEI registration back office.                     *)
(*                                                                         *)
(*   Spec        bulk_imei_verification.main, run after run on one batch   *)
(*   SpecImport  process_imports.main, run after run on one batch          *)
(*   SpecConcurrent, SpecRunners, SpecClassify: two runs at once, the two  *)
(*               runners side by side, check_imei_status on its own        *)
(*   SpecFollowUp  pending_payment_followup.main, run after run            *)
(*   SpecWeb       main.py, run after run                                  *)
(*   SpecSheet     script.py, run after run on one worksheet               *)
(*   SpecReport    script_reporte_sheets.main, run after run               *)
(*                                                                         *)
(* Texts (IMEIs, service answers, result strings) are sequences of tokens: *)
(* a token is a word or a run of whitespace " ".  Firestore documents are  *)
(* functions from field names to values; a field a document does not have *)
(* is not in its DOMAIN.                                                   *)
(***************************************************************************)
EXTENDS Integers, Sequences, FiniteSets, TLC

\* ------------------------------------------------------------------ bounds
MaxItems == 2      \* documents in the batch's 'imeis' subcollection
MaxRuns  == 2      \* invocations of the script on the batch

\* ------------------------------------------------------------ python values
\* What dict.get() returns for a key the document does not have.
None == <<"<None>">>

Get(doc, k) == IF k \in DOMAIN doc THEN doc[k] ELSE None

\* Python truthiness of an optional text: None and "" are falsy.
Truthy(v) == v # None /\ v # <<>>

RECURSIVE LStrip(_)
LStrip(s) == IF s # <<>> /\ Head(s) = " " THEN LStrip(Tail(s)) ELSE s

RECURSIVE RStrip(_)
RStrip(s) ==
    IF s # <<>> /\ s[Len(s)] = " " THEN RStrip(SubSeq(s, 1, Len(s) - 1)) ELSE s

\* str.strip()
Strip(s) == RStrip(LStrip(s))

LowerOf ==
    [w \in {"El", "EL", "Equipo", "EQUIPO", "NO", "No", "ESTÁ", "INSCRITO",
            "SE", "ENCUENTRA", "Error:", "Respuesta", "IMEI", "Error", "La",
            "Selenium", "Message"} |->
        CASE w \in {"El", "EL"}          -> "el"
          [] w \in {"Equipo", "EQUIPO"}  -> "equipo"
          [] w \in {"NO", "No"}          -> "no"
          [] w = "ESTÁ"                  -> "está"
          [] w = "INSCRITO"              -> "inscrito"
          [] w = "SE"                    -> "se"
          [] w = "ENCUENTRA"             -> "encuentra"
          [] w = "Error:"                -> "error:"
          [] w = "Respuesta"             -> "respuesta"
          [] w = "IMEI"                  -> "imei"
          [] w = "Error"                 -> "error"
          [] w = "La"                    -> "la"
          [] w = "Selenium"              -> "selenium"
          [] w = "Message"               -> "message"]

\* str.lower()
Lower(s) == [i \in 1..Len(s) |-> IF s[i] \in DOMAIN LowerOf THEN LowerOf[s[i]] ELSE s[i]]

\* pattern in text
Contains(text, pattern) ==
    \E i \in 0..(Len(text) - Len(pattern)) :
        SubSeq(text, i + 1, i + Len(pattern)) = pattern

\* ------------------------------------------------------------ result texts
Vacio             == <<"Vacío">>
EquipoNoInscrito  == <<"Equipo", " ", "NO", " ", "inscrito">>
EquipoInscrito    == <<"Equipo", " ", "inscrito", " ", "correctamente">>
ErrorDeConexion   == <<"Error", " ", "de", " ", "Conexión">>
ErrorEnScript     == <<"Error", " ", "en", " ", "Script">>
RespuestaInesperada == <<"Error:", " ", "Respuesta", " ", "inesperada">>

PatNoInscrito == <<"no", " ", "está", " ", "inscrito">>
PatInscrito   == <<"equipo", " ", "se", " ", "encuentra", " ", "inscrito">>

\* Answers of the verification service for one request.
\*   ok        HTTP 200 with a JSON body whose 'resultado' is the text
\*   nofield   HTTP 200 with a JSON body without 'resultado'
\*   network   requests.exceptions.RequestException (timeout, HTTP error status)
\*   broken    any other exception while reading the answer
TxtInscrito   == <<"El", " ", "equipo", " ", "se", " ", "encuentra", " ", "inscrito">>
TxtNoInscrito == <<"El", " ", "IMEI", " ", "NO", " ", "está", " ", "inscrito">>

AnsRegistered == [kind |-> "ok", resultado |-> TxtInscrito]

ServiceAnswers ==
    { AnsRegistered,
      [kind |-> "network"],
      [kind |-> "broken"] }

\* The shortening with its two tests in the other order.
ClassifyMut(full_result) ==
    IF Contains(Lower(full_result), PatInscrito) THEN EquipoInscrito
    ELSE IF Contains(Lower(full_result), PatNoInscrito) THEN EquipoNoInscrito
    ELSE full_result

\* check_imei_status, lines 36-42: the shortening of the service's text.
Classify(full_result) ==
    IF Contains(Lower(full_result), PatNoInscrito) THEN EquipoNoInscrito
    ELSE IF Contains(Lower(full_result), PatInscrito) THEN EquipoInscrito
    ELSE full_result

\* Whether check_imei_status(imei) reaches the network.
MakesCall(imei) == Truthy(imei) /\ Strip(imei) # <<>>

\* The classifier with one sentinel for every failure of the call.
check_imei_statusMut(imei, ans) ==
    IF ~MakesCall(imei) THEN Vacio
    ELSE CASE ans.kind = "ok"      -> Classify(ans.resultado)
           [] ans.kind = "nofield" -> Classify(RespuestaInesperada)
           [] OTHER                -> ErrorDeConexion

\* check_imei_status(imei) when the service answers `ans` (read only when
\* the call is made).
check_imei_status(imei, ans) ==
    IF ~MakesCall(imei) THEN Vacio
    ELSE CASE ans.kind = "ok"      -> Classify(ans.resultado)
           [] ans.kind = "nofield" -> Classify(RespuestaInesperada)
           [] ans.kind = "network" -> ErrorDeConexion
           [] OTHER                -> ErrorEnScript

\* ------------------------------------------------------------------- store
PENDING  == "pending_verification"
VERIFIED == "verified"

BatchId   == "B1"
CompanyId == "co1"
OwnerId   == "owner1"
DocIds    == <<"A", "C", "E", "G">>

Imei111 == <<"111111111111111">>
Imei222 == <<"222222222222222">>
Imei333 == <<"333333333333333">>

\* Item documents as the producer creates them: subjects missing, empty,
\* whitespace only, or an IMEI.
NewItems ==
    { [status |-> PENDING],
      [status |-> PENDING, imei1 |-> <<>>,    imei2 |-> <<>>],
      [status |-> PENDING, imei1 |-> <<" ">>, imei2 |-> <<>>],
      [status |-> PENDING, imei1 |-> Imei111],
      [status |-> PENDING, imei1 |-> <<>>,    imei2 |-> Imei111] }

\* The batch of the spec's scenario: items A and C.
ScenarioItems ==
    << [status |-> PENDING, imei1 |-> Imei111, imei2 |-> <<>>],
       [status |-> PENDING, imei1 |-> Imei222, imei2 |-> Imei333] >>

\* DocumentReference.update(fields): writes the given fields, keeps the rest.
Update(doc, fields) ==
    [k \in (DOMAIN doc) \cup (DOMAIN fields) |->
        IF k \in DOMAIN fields THEN fields[k] ELSE doc[k]]

\* The query without its filter on status.
QueryAllMut(coll) ==
    [i \in 1..Len(coll) |-> [id |-> DocIds[i], data |-> coll[i]]]

RECURSIVE Where(_, _)
Where(coll, i) ==
    IF i > Len(coll) THEN <<>>
    ELSE (IF coll[i].status = PENDING
          THEN << [id |-> DocIds[i], data |-> coll[i]] >>
          ELSE <<>>) \o Where(coll, i + 1)

\* list(imeis_ref.where('status', '==', 'pending_verification').stream()):
\* snapshots of the matching documents, in document-id order.
PendingQuery(coll) == Where(coll, 1)

IndexOf(id) == CHOOSE i \in 1..Len(DocIds) : DocIds[i] = id

\* ------------------------------------------------------------------ errors
ErrCredentials == "FIREBASE_CREDENTIALS_B64 no está configurada."
ErrBatchId     == "BATCH_ID es una variable de entorno requerida."
ErrNotFound    == "No se encontró el lote con el ID: B1"
ErrStoreRead   == "503 store unavailable (read)"
ErrStoreWrite  == "503 store unavailable (write)"

VARIABLES
    imei_batches,   \* collection 'imei_batches': batch id -> document
    imeis,          \* subcollection 'imeis' of the batch: sequence of documents
    clock,          \* datetime.now(): the number of runs started so far
    run,            \* run[p]: the locals of main() in process p
    pending_imports,\* collection 'pending_imports': batch id -> document
    import_items,   \* subcollection 'items' of the import batch
    registros,      \* collection 'registros': the documents, keyed by orderNumber
    companies,      \* collection 'companies': company id -> document
    imp,            \* the locals of process_imports.main()
    probe,          \* one call of check_imei_status: its arguments and result
    orders,         \* collection 'registros' as pending_payment_followup sees it
    fu,             \* the locals of pending_payment_followup.main()
    web_docs,       \* collection 'registros' as main.py sees it
    web,            \* the locals of main.py's __main__ block
    hoja,           \* the worksheet of script.py: a grid of cells
    planilla,       \* the locals of script.py's __main__ block
    rep_docs,       \* collection 'registros' as script_reporte_sheets sees it
    worksheet,      \* the rows of the report's worksheet
    report          \* the locals of script_reporte_sheets.main()

bulkVars   == <<imei_batches, imeis, run, probe>>
importVars == <<pending_imports, import_items, registros, companies, imp>>
followVars == <<orders, fu>>
webVars    == <<web_docs, web>>
sheetVars  == <<hoja, planilla>>
reportVars == <<rep_docs, worksheet, report>>
otherVars  == <<followVars, webVars, sheetVars, reportVars>>
batchVars  == <<bulkVars, clock, importVars>>
vars == <<imei_batches, imeis, clock, run, pending_imports, import_items,
          registros, companies, imp, probe, otherVars>>

IdleRun ==
    [ pc              |-> "idle",
      batch_ref       |-> FALSE,      \* batch_ref is not None
      company_id      |-> None,
      total_items     |-> 0,
      docs_to_process |-> <<>>,
      processed_count |-> 0,
      update_data     |-> << >>,
      exc             |-> "",         \* str(e) of the exception being handled
      outcome         |-> "none",     \* "returned" | "raised" once main() ended
      queried         |-> FALSE,      \* the query of line 120 has answered
      eligible        |-> {},         \* ids of the items pending when it answered
      calls           |-> <<>>,       \* requests sent to the verification service
      writes          |-> <<>>,       \* ids of the item documents written
      notified        |-> "none",     \* what send_completion_notification did
      marked          |-> "none",     \* what the handler's batch update did
      alone           |-> TRUE ]      \* no other process ran main() meanwhile

Set(r, fields) == run' = [run EXCEPT ![r] = Update(@, fields)]

\* ------------------------------------------------------------------- Init
InitStore(n, items, withCompany) ==
    /\ imeis = items
    /\ imei_batches =
         (BatchId :> (IF withCompany
                      THEN [status |-> "received", itemCount |-> n, companyId |-> <<CompanyId>>]
                      ELSE [status |-> "received", itemCount |-> n]))

\* What company_ref.get() may do: raise, or answer no document, a company
\* without owner, a company with its owner.  The collection is not written
\* by this script.
CompanyDocs ==
    { [raises |-> TRUE,  exists |-> FALSE, data |-> << >>],
      [raises |-> FALSE, exists |-> FALSE, data |-> << >>],
      [raises |-> FALSE, exists |-> TRUE,  data |-> [name |-> "Acme"]],
      [raises |-> FALSE, exists |-> TRUE,  data |-> [name |-> "Acme", ownerId |-> <<OwnerId>>]] }

IdleImport ==
    [ pc              |-> "idle",
      batch_ref       |-> FALSE,      \* batch_ref is not None
      batch_data      |-> << >>,
      docs_to_process |-> <<>>,
      processed_count |-> 0,
      final_batch     |-> <<>>,       \* the documents staged in the write batch
      committed       |-> FALSE,      \* final_batch.commit() has returned
      exc             |-> "",
      outcome         |-> "none",     \* "returned" | "raised" once main() ended
      marked          |-> "none",     \* what the handler's batch update did
      emailed         |-> "none",     \* what the summary-email step did
      status0         |-> "none",     \* the batch's status when it was loaded
      registros0      |-> {},         \* 'registros' when the batch was loaded
      credits0        |-> 0 ]         \* the company's credits at that time

\* The import side while the verification runner is looked at.
NoImport ==
    /\ pending_imports = << >>
    /\ import_items = <<>>
    /\ registros = {}
    /\ companies = << >>
    /\ imp = IdleImport

\* No call of check_imei_status on its own is looked at.
NoProbe == [pc |-> "none"]

IdleFollowUp ==
    [ pc              |-> "idle",
      runs            |-> 0,          \* runs of main() started so far
      now_utc         |-> 0,          \* hours on the wall clock at the last start
      resend_api_key  |-> FALSE,      \* RESEND_API_KEY is set
      docs_to_process |-> <<>>,
      index           |-> 0,          \* the document the loop is at
      outcome         |-> "none",     \* "returned" | "raised" once main() ended
      external        |-> [kind |-> "none"],   \* the latest answer of the
                                               \* external service
      emails          |-> <<>>,       \* this run's calls of send_resend_email
      updated         |-> <<>>,       \* orders whose level this run raised
      cancelled       |-> {} ]        \* orders cancelled by this or an earlier run


\* The other scripts while the batch runners are looked at.
NoFollowUp == orders = <<>> /\ fu = IdleFollowUp
NoWeb      == web_docs = <<>> /\ web = [pc |-> "idle"]
NoSheet    == hoja = <<>> /\ planilla = [pc |-> "idle"]
NoReport   == rep_docs = <<>> /\ worksheet = <<>> /\ report = [pc |-> "idle"]
NoOthers   == NoFollowUp /\ NoWeb /\ NoSheet /\ NoReport

Init ==
    /\ clock = 0
    /\ run = [p \in {"p1"} |-> IdleRun]
    /\ probe = NoProbe
    /\ NoImport
    /\ NoOthers
    /\ \/ \E n \in 0..MaxItems : \E items \in [1..n -> NewItems] :
            \E withCompany \in BOOLEAN : InitStore(n, items, withCompany)
       \/ InitStore(2, ScenarioItems, TRUE)
       \/ \E n \in 0..MaxItems : \E items \in [1..n -> NewItems] :
            /\ imeis = items            \* no batch document with this id
            /\ imei_batches = << >>

\* ---------------------------------------------------------------- actions
Sequential(r) == \A q \in (DOMAIN run) \ {r} : run[q].pc \in {"idle", "done"}

Raise(r, text) == Set(r, [pc |-> "except", exc |-> text])

\* The start without the check of BATCH_ID.
StartedMut(creds, batch_id) ==
    [ pc  |-> IF creds THEN "load" ELSE "except",
      exc |-> IF ~creds THEN ErrCredentials
              ELSE IF ~batch_id THEN ErrBatchId ELSE "" ]

\* main, lines 99-107: initialize_firebase() raises without credentials
\* (line 15), then main raises without BATCH_ID; `creds` and `batch_id` say
\* whether the two environment variables are set.
Started(creds, batch_id) ==
    [ pc  |-> IF creds /\ batch_id THEN "load" ELSE "except",
      exc |-> IF ~creds THEN ErrCredentials
              ELSE IF ~batch_id THEN ErrBatchId ELSE "" ]

\* main, lines 97-109: a process starts (the locals of an earlier process
\* are gone), reads BATCH_ID and initialises the store client.
StartRun(r) ==
    /\ run[r].pc \in {"idle", "done"}
    /\ clock < MaxRuns
    /\ clock' = clock + 1
    /\ \E creds \in BOOLEAN, batch_id \in BOOLEAN :
         run' = [q \in DOMAIN run |->
                    IF q = r
                    THEN Update(Update(IdleRun, Started(creds, batch_id)),
                                [alone |-> Sequential(r)])
                    ELSE Update(run[q], [alone |-> run[q].alone
                                                   /\ run[q].pc \in {"idle", "done"}])]
    /\ UNCHANGED <<imei_batches, imeis, importVars, probe, otherVars>>

\* main, lines 111-117: batch_ref, batch_ref.get(), companyId.
LoadBatch(r) ==
    /\ run[r].pc = "load"
    /\ \E ok \in BOOLEAN :
         IF ~ok THEN Set(r, [pc |-> "except", exc |-> ErrStoreRead, batch_ref |-> TRUE])
         ELSE IF BatchId \notin DOMAIN imei_batches
         THEN Set(r, [pc |-> "except", exc |-> ErrNotFound, batch_ref |-> TRUE])
         ELSE Set(r, [pc |-> "query", batch_ref |-> TRUE,
                      company_id |-> Get(imei_batches[BatchId], "companyId")])
    /\ UNCHANGED <<imei_batches, imeis, clock, importVars, probe, otherVars>>

\* main, lines 119-124: the query for the pending items.
QueryItems(r) ==
    /\ run[r].pc = "query"
    /\ \E ok \in BOOLEAN :
         IF ~ok THEN Raise(r, ErrStoreRead)
         ELSE LET docs == PendingQuery(imeis) IN
              Set(r, [pc |-> "item", docs_to_process |-> docs,
                      queried |-> TRUE,
                      eligible |-> {DocIds[i] : i \in {j \in 1..Len(imeis) :
                                                        imeis[j].status = PENDING}},
                      total_items |-> IF "itemCount" \in DOMAIN imei_batches[BatchId]
                                      THEN imei_batches[BatchId].itemCount
                                      ELSE Len(docs),
                      processed_count |-> 0])
    /\ UNCHANGED <<imei_batches, imeis, clock, importVars, probe, otherVars>>

\* A loop that stays at the first snapshot.
DocMut(r) == run[r].docs_to_process[1]

\* The snapshot the loop is at.
Doc(r) == run[r].docs_to_process[run[r].processed_count + 1]

\* The first result left out of the update.
AddResult1Mut(update_data, imei, ans) == update_data

\* main, lines 136-139.
AddResult1(update_data, imei, ans) ==
    IF Truthy(imei)
    THEN Update(update_data, [result1 |-> check_imei_status(imei, ans)])
    ELSE update_data

\* main, lines 141-144.
AddResult2(update_data, imei, ans) ==
    IF Truthy(imei)
    THEN Update(update_data, [result2 |-> check_imei_status(imei, ans)])
    ELSE update_data

\* The update without the status.
SetStatusMut(update_data) == update_data

\* main, line 146.
SetStatus(update_data) == Update(update_data, [status |-> VERIFIED])

Called(r, slot, imei, ans) ==
    IF Truthy(imei) /\ MakesCall(imei)
    THEN Append(run[r].calls,
                [doc |-> Doc(r).id, slot |-> slot, imei |-> Strip(imei), ans |-> ans.kind])
    ELSE run[r].calls

\* main, lines 126-139: the next document of the snapshot, its first subject.
VerifyImei1(r) ==
    /\ run[r].pc = "item"
    /\ run[r].processed_count < Len(run[r].docs_to_process)
    /\ LET imei1 == Get(Doc(r).data, "imei1") IN
       \E ans \in (IF Truthy(imei1) /\ MakesCall(imei1) THEN ServiceAnswers ELSE {AnsRegistered}) :
         Set(r, [pc |-> "imei2",
                 update_data |-> AddResult1([verifiedAt |-> clock], imei1, ans),
                 calls |-> Called(r, 1, imei1, ans)])
    /\ UNCHANGED <<imei_batches, imeis, clock, importVars, probe, otherVars>>

\* main, lines 141-146: the second subject, and the status.
VerifyImei2(r) ==
    /\ run[r].pc = "imei2"
    /\ LET imei2 == Get(Doc(r).data, "imei2") IN
       \E ans \in (IF Truthy(imei2) /\ MakesCall(imei2) THEN ServiceAnswers ELSE {AnsRegistered}) :
         Set(r, [pc |-> "write",
                 update_data |-> SetStatus(AddResult2(run[r].update_data, imei2, ans)),
                 calls |-> Called(r, 2, imei2, ans)])
    /\ UNCHANGED <<imei_batches, imeis, clock, importVars, probe, otherVars>>

\* main, lines 147-149: the write of the item document.
WriteItem(r) ==
    /\ run[r].pc = "write"
    /\ \E ok \in BOOLEAN :
         IF ~ok
         THEN /\ Raise(r, ErrStoreWrite)
              /\ UNCHANGED imeis
         ELSE LET i == IndexOf(Doc(r).id) IN
              /\ imeis' = [imeis EXCEPT ![i] = Update(@, run[r].update_data)]
              /\ Set(r, [pc |-> "item",
                         processed_count |-> run[r].processed_count + 1,
                         writes |-> Append(run[r].writes, Doc(r).id)])
    /\ UNCHANGED <<imei_batches, clock, importVars, probe, otherVars>>

\* The batch update without the status.
CompletedFieldsMut(now) == [completedAt |-> now]

\* main, line 156: the fields of the batch update.
CompletedFields(now) == [status |-> "completed", completedAt |-> now]

\* A loop that may stop after its first document.
LoopDoneMut(docs, n) == n >= 1 \/ n = Len(docs)

\* main, line 126: the for loop has gone through every document of the
\* snapshot, `n` of them being processed.
LoopDone(docs, n) == n = Len(docs)

\* main, lines 151-157: after the loop, the batch is marked completed.
CompleteBatch(r) ==
    /\ run[r].pc = "item"
    /\ LoopDone(run[r].docs_to_process, run[r].processed_count)
    /\ \E ok \in BOOLEAN :
         IF ~ok
         THEN /\ Raise(r, ErrStoreWrite)
              /\ UNCHANGED imei_batches
         ELSE /\ imei_batches' =
                   [imei_batches EXCEPT ![BatchId] = Update(@, CompletedFields(clock))]
              /\ Set(r, [pc |-> "notify"])
    /\ UNCHANGED <<imeis, clock, importVars, probe, otherVars>>

\* send_completion_notification, lines 53-92, for the environment's choices
\* `api_key` (REGISTRATION_API_KEY set), `company_doc` (what company_ref.get()
\* does) and `http` (what requests.post does).
\* "raise" is an exception leaving the function, anything else is what the
\* function did before it returned.
send_completion_notification(api_key, company_doc, http) ==
    IF ~api_key THEN "no_api_key"
    ELSE IF company_doc.raises THEN "raise"
    ELSE IF ~company_doc.exists THEN "no_company"
    ELSE IF ~Truthy(Get(company_doc.data, "ownerId")) THEN "no_owner"
    ELSE http

HttpResults == {"sent_200", "status_not_200", "post_exception"}

\* main, lines 159-160, and the return of main().
Notify(r) ==
    /\ run[r].pc = "notify"
    /\ IF ~Truthy(run[r].company_id)
       THEN Set(r, [pc |-> "done", outcome |-> "returned"])
       ELSE \E api_key \in BOOLEAN, company_doc \in CompanyDocs,
               http \in HttpResults :
              LET did == send_completion_notification(api_key, company_doc, http) IN
              IF did = "raise"
              THEN Set(r, [pc |-> "except", exc |-> ErrStoreRead, notified |-> did])
              ELSE Set(r, [pc |-> "done", outcome |-> "returned", notified |-> did])
    /\ UNCHANGED <<imei_batches, imeis, clock, importVars, probe, otherVars>>

\* A write that creates the document it does not find, as set(merge=True).
UpdateDocMut(coll, id, fields) ==
    [k \in (DOMAIN coll) \cup {id} |->
        IF k # id THEN coll[k]
        ELSE IF id \in DOMAIN coll THEN Update(coll[id], fields) ELSE fields]

\* main, lines 165-166: batch_ref.update(fields) on the collection; the
\* update of a document that does not exist raises NotFound and creates
\* nothing.
UpdateDoc(coll, id, fields) ==
    IF id \in DOMAIN coll THEN [coll EXCEPT ![id] = Update(@, fields)] ELSE coll

\* The handler's update without the status.
FailedFieldsMut(text) == [error |-> text]

\* main, line 166: the fields of the handler's batch update.
FailedFields(text) == [status |-> "failed", error |-> text]

\* main, lines 162-169: the handler; the exception is raised again.
HandleException(r) ==
    /\ run[r].pc = "except"
    /\ IF ~run[r].batch_ref
       THEN /\ Set(r, [pc |-> "done", outcome |-> "raised", marked |-> "no_batch_ref"])
            /\ UNCHANGED imei_batches
       ELSE \E ok \in BOOLEAN :
              IF ~ok
              THEN /\ Set(r, [pc |-> "done", outcome |-> "raised", marked |-> "update_failed"])
                   /\ UNCHANGED imei_batches
              ELSE /\ imei_batches' =
                        UpdateDoc(imei_batches, BatchId, FailedFields(run[r].exc))
                   /\ Set(r, [pc |-> "done", outcome |-> "raised",
                              marked |-> IF BatchId \in DOMAIN imei_batches
                                         THEN "failed" ELSE "update_failed"])
    /\ UNCHANGED <<imeis, clock, importVars, probe, otherVars>>

Next ==
    \/ \E r \in DOMAIN run : StartRun(r)
    \/ \E r \in DOMAIN run : LoadBatch(r)
    \/ \E r \in DOMAIN run : QueryItems(r)
    \/ \E r \in DOMAIN run : VerifyImei1(r)
    \/ \E r \in DOMAIN run : VerifyImei2(r)
    \/ \E r \in DOMAIN run : WriteItem(r)
    \/ \E r \in DOMAIN run : CompleteBatch(r)
    \/ \E r \in DOMAIN run : Notify(r)
    \/ \E r \in DOMAIN run : HandleException(r)

Spec == Init /\ [][Next]_vars

\* ======================================================= process_imports
ImpErrCredentials == "Environment variable FIREBASE_CREDENTIALS_B64 is not set."
ImpErrBatchId     == "BATCH_ID is a required environment variable."
ImpErrNotFound    == "Batch with ID not found: B1"
ErrCompany        == "404 No document to update: companies/co1"
ErrEmail          == "ConnectionError: /api/send-email"

SerialSN1 == <<"SN-0001">>

\* generate_serial_number, lines 28-53, for the environment's choices
\* `configured` (REGISTRATION_API_KEY and HOST_URL set) and `resp`, what the
\* request does: "serial" (a body with a serialNumber), "empty" (none in the
\* body), "network" or "exception".
generate_serial_number(configured, resp) ==
    IF ~configured THEN None
    ELSE IF resp = "serial" THEN SerialSN1
    ELSE None

SerialResponses == {"serial", "empty", "network", "exception"}

Copy(doc, keys) == [k \in keys \cap DOMAIN doc |-> doc[k]]

IsInternal(batch_data) ==
    "processingMethod" \in DOMAIN batch_data /\ batch_data.processingMethod = "internal"

\* An order number without the count of the rows prepared so far.
OrderNumberMut(timestamp, processed_count) == <<"CR", timestamp, 0>>

\* main, lines 94-95.
OrderNumber(timestamp, processed_count) == <<"CR", timestamp, processed_count>>

\* main, lines 97-109: the registration of one imported row; a value that is
\* None is left out here as line 123 drops it.
NewRegistrationData(batch_data, item_data, order_number, now) ==
    Update(
      Update(
        Update([ orderNumber   |-> order_number,
                 paymentMethod |-> IF IsInternal(batch_data) THEN "Credits" ELSE "Manual",
                 status        |-> IF IsInternal(batch_data) THEN "Recibido"
                                   ELSE "Pendiente de Envío",
                 createdAt     |-> now,
                 batchId       |-> BatchId ],
               Copy(batch_data, {"userId", "companyId", "customerName", "customerEmail"})),
        IF IsInternal(batch_data) THEN [paymentDate |-> now] ELSE << >>),
      item_data)

\* main, line 112.
NeedsSerial(data) ==
    /\ "deviceType" \in DOMAIN data /\ data.deviceType = "smartphone"
    /\ ~Truthy(Get(data, "serialNumber"))

\* main, lines 112-123.
FinalDataToSave(data, serial) ==
    IF NeedsSerial(data) /\ Truthy(serial)
    THEN Update(data, [serialNumber |-> serial])
    ELSE data

\* Rows of an import: a smartphone without serial number, one with, and
\* another kind of device.
ImportRows ==
    { [deviceType |-> "smartphone", brand |-> "Acme", model |-> "X1", imei1 |-> Imei111],
      [deviceType |-> "smartphone", brand |-> "Acme", model |-> "X1", imei1 |-> Imei222,
       serialNumber |-> <<"SN-ROW">>],
      [deviceType |-> "tablet", brand |-> "Acme", model |-> "T1", imei1 |-> Imei333] }

ImportBatches ==
    { [status |-> "pending", userId |-> "u1", companyId |-> CompanyId,
       customerEmail |-> "buyer@example.com", processingMethod |-> m] :
         m \in {"internal", "manual"} }

InitialCredits == 5

NoBulk ==
    /\ imei_batches = << >>
    /\ imeis = <<>>
    /\ run = [p \in {"p1"} |-> IdleRun]
    /\ probe = NoProbe

InitImport ==
    /\ clock = 0
    /\ NoBulk
    /\ NoOthers
    /\ imp = IdleImport
    /\ registros = {}
    /\ \/ /\ \E b \in ImportBatches : pending_imports = (BatchId :> b)
          /\ \E n \in 0..MaxItems : import_items \in [1..n -> ImportRows]
          /\ \/ companies = (CompanyId :> [name |-> "Acme", credits |-> InitialCredits])
             \/ companies = << >>
       \/ /\ pending_imports = << >>      \* no batch document with this id
          /\ import_items = <<>>
          /\ companies = << >>

SetImp(fields) == imp' = Update(imp, fields)
ImpRaise(text) == SetImp([pc |-> "except", exc |-> text])

\* main, lines 57-69.
ImpStart ==
    /\ imp.pc \in {"idle", "done"}
    /\ clock < MaxRuns
    /\ clock' = clock + 1
    /\ \E creds \in BOOLEAN, batch_id \in BOOLEAN :
         imp' = Update(IdleImport,
                       [pc  |-> IF creds /\ batch_id THEN "load" ELSE "except",
                        exc |-> IF ~creds THEN ImpErrCredentials
                                ELSE IF ~batch_id THEN ImpErrBatchId ELSE ""])
    /\ UNCHANGED <<pending_imports, import_items, registros, companies, bulkVars, otherVars>>

CreditsOf(store) ==
    IF CompanyId \in DOMAIN store THEN store[CompanyId].credits ELSE 0

\* main, lines 71-76: batch_ref and batch_ref.get().
ImpLoad ==
    /\ imp.pc = "load"
    /\ \E ok \in BOOLEAN :
         IF ~ok THEN SetImp([pc |-> "except", exc |-> ErrStoreRead, batch_ref |-> TRUE])
         ELSE IF BatchId \notin DOMAIN pending_imports
         THEN SetImp([pc |-> "except", exc |-> ImpErrNotFound, batch_ref |-> TRUE])
         ELSE SetImp([pc |-> "stream", batch_ref |-> TRUE,
                      batch_data |-> pending_imports[BatchId],
                      status0 |-> pending_imports[BatchId].status,
                      registros0 |-> registros,
                      credits0 |-> CreditsOf(companies)])
    /\ UNCHANGED <<pending_imports, import_items, registros, companies, clock, bulkVars, otherVars>>

\* main, line 78: list(items_ref.stream()), every item of the batch.
AllItems(coll) == coll

NoItemsFields == [status |-> "completed", error |-> "No items found."]

\* main, lines 77-88: the items; a batch without items is marked completed
\* and main returns.
ImpStream ==
    /\ imp.pc = "stream"
    /\ \E ok \in BOOLEAN, write_ok \in BOOLEAN :
         IF ~ok
         THEN ImpRaise(ErrStoreRead) /\ UNCHANGED pending_imports
         ELSE IF AllItems(import_items) = <<>>
         THEN IF write_ok
              THEN /\ pending_imports' =
                        [pending_imports EXCEPT ![BatchId] = Update(@, NoItemsFields)]
                   /\ SetImp([pc |-> "done", outcome |-> "returned"])
              ELSE ImpRaise(ErrStoreWrite) /\ UNCHANGED pending_imports
         ELSE /\ SetImp([pc |-> "prepare", docs_to_process |-> AllItems(import_items),
                         processed_count |-> 0, final_batch |-> <<>>])
              /\ UNCHANGED pending_imports
    /\ UNCHANGED <<import_items, registros, companies, clock, bulkVars, otherVars>>

\* main, lines 90-129: one row is turned into a registration and staged.
ImpPrepare ==
    /\ imp.pc = "prepare"
    /\ imp.processed_count < Len(imp.docs_to_process)
    /\ LET item_data == imp.docs_to_process[imp.processed_count + 1]
           data == NewRegistrationData(imp.batch_data, item_data,
                                       OrderNumber(clock, imp.processed_count), clock)
       IN \E configured \in BOOLEAN, resp \in SerialResponses :
            SetImp([final_batch |->
                        Append(imp.final_batch,
                               FinalDataToSave(data, generate_serial_number(configured, resp))),
                    processed_count |-> imp.processed_count + 1])
    /\ UNCHANGED <<pending_imports, import_items, registros, companies, clock, bulkVars, otherVars>>

\* A commit that applies the first staged set() only.
CommitMut(coll, staged) ==
    {d \in coll : staged = <<>> \/ staged[1].orderNumber # d.orderNumber}
        \cup {staged[i] : i \in 1..(IF staged = <<>> THEN 0 ELSE 1)}

\* WriteBatch.commit(): every staged set() is applied, a document with the
\* same id is replaced.
Commit(coll, staged) ==
    {d \in coll : \A i \in 1..Len(staged) : staged[i].orderNumber # d.orderNumber}
        \cup {staged[i] : i \in 1..Len(staged)}

\* main, lines 131-133.
ImpCommit ==
    /\ imp.pc = "prepare"
    /\ imp.processed_count = Len(imp.docs_to_process)
    /\ \E ok \in BOOLEAN :
         IF ~ok
         THEN ImpRaise(ErrStoreWrite) /\ UNCHANGED registros
         ELSE /\ registros' = Commit(registros, imp.final_batch)
              /\ SetImp([pc |-> "credits", committed |-> TRUE])
    /\ UNCHANGED <<pending_imports, import_items, companies, clock, bulkVars, otherVars>>

\* main, lines 135-139: firestore.FieldValue.increment(-processed_count).
ImpCredits ==
    /\ imp.pc = "credits"
    /\ IF ~IsInternal(imp.batch_data)
       THEN SetImp([pc |-> "complete"]) /\ UNCHANGED companies
       ELSE \E ok \in BOOLEAN :
              IF ~ok THEN ImpRaise(ErrStoreWrite) /\ UNCHANGED companies
              ELSE IF CompanyId \notin DOMAIN companies
              THEN ImpRaise(ErrCompany) /\ UNCHANGED companies
              ELSE /\ companies' =
                        [companies EXCEPT ![CompanyId].credits = @ - imp.processed_count]
                   /\ SetImp([pc |-> "complete"])
    /\ UNCHANGED <<pending_imports, import_items, registros, clock, bulkVars, otherVars>>

\* main, lines 141-143.
ImpComplete ==
    /\ imp.pc = "complete"
    /\ \E ok \in BOOLEAN :
         IF ~ok
         THEN ImpRaise(ErrStoreWrite) /\ UNCHANGED pending_imports
         ELSE /\ pending_imports' =
                   [pending_imports EXCEPT ![BatchId] = Update(@, CompletedFields(clock))]
              /\ SetImp([pc |-> "email"])
    /\ UNCHANGED <<import_items, registros, companies, clock, bulkVars, otherVars>>

\* main, lines 146-161, for the environment's choices `configured`
\* (REGISTRATION_API_KEY and HOST_URL set) and `post`: requests.post
\* "answers" (with any status code: it is not looked at) or "raises".
SummaryEmail(configured, post) ==
    IF ~configured THEN "skipped"
    ELSE IF post = "raises" THEN "raise"
    ELSE "requested"

\* main, lines 145-161, and the return of main().
ImpEmail ==
    /\ imp.pc = "email"
    /\ \E configured \in BOOLEAN, post \in {"answers", "raises"} :
         LET did == SummaryEmail(configured, post) IN
         IF did = "raise"
         THEN SetImp([pc |-> "except", exc |-> ErrEmail, emailed |-> did])
         ELSE SetImp([pc |-> "done", outcome |-> "returned", emailed |-> did])
    /\ UNCHANGED <<pending_imports, import_items, registros, companies, clock, bulkVars, otherVars>>

\* main, lines 163-170: the handler; the exception is raised again.
ImpHandle ==
    /\ imp.pc = "except"
    /\ IF ~imp.batch_ref
       THEN /\ SetImp([pc |-> "done", outcome |-> "raised", marked |-> "no_batch_ref"])
            /\ UNCHANGED pending_imports
       ELSE \E ok \in BOOLEAN :
              IF ~ok \/ BatchId \notin DOMAIN pending_imports
              THEN /\ SetImp([pc |-> "done", outcome |-> "raised", marked |-> "update_failed"])
                   /\ UNCHANGED pending_imports
              ELSE /\ pending_imports' =
                        [pending_imports EXCEPT ![BatchId] = Update(@, FailedFields(imp.exc))]
                   /\ SetImp([pc |-> "done", outcome |-> "raised", marked |-> "failed"])
    /\ UNCHANGED <<import_items, registros, companies, clock, bulkVars, otherVars>>

NextImport ==
    \/ ImpStart
    \/ ImpLoad
    \/ ImpStream
    \/ ImpPrepare
    \/ ImpCommit
    \/ ImpCredits
    \/ ImpComplete
    \/ ImpEmail
    \/ ImpHandle

SpecImport == InitImport /\ [][NextImport]_vars

\* -------------------------------------------------------- concurrent runs
\* Two processes run bulk_imei_verification.main on the same batch; nothing
\* in the script keeps the second from starting while the first is at work.
MaxShared == 1     \* items of the batch the two processes work on

\* The items of that batch: one IMEI each, or none.
SharedItems ==
    { [status |-> PENDING, imei1 |-> Imei111],
      [status |-> PENDING, imei1 |-> <<>>, imei2 |-> <<>>] }

InitConcurrent ==
    /\ clock = 0
    /\ run = [p \in {"p1", "p2"} |-> IdleRun]
    /\ probe = NoProbe
    /\ NoImport
    /\ NoOthers
    /\ \E n \in 1..MaxShared : \E items \in [1..n -> SharedItems] :
         InitStore(n, items, FALSE)    \* a batch without companyId: nobody to notify

SpecConcurrent == InitConcurrent /\ [][Next]_vars

\* ------------------------------------------------- check_imei_status alone
\* The subjects check_imei_status is called with: missing, empty, whitespace
\* only, an IMEI, an IMEI with whitespace around it.
Subjects ==
    { None, <<>>, <<" ">>, <<" ", " ">>, Imei111, <<" ">> \o Imei111,
      Imei111 \o <<" ">> }

\* Texts of the service: a lead, a core and a tail.  The cores hold each
\* phrase in several spellings, both phrases in both orders, and phrases
\* that come close to them.
TextLeads == { <<>>, <<"El", " ">>, <<"EL", " ", "IMEI", " ">> }
TextCores ==
    { PatNoInscrito,
      <<"NO", " ", "ESTÁ", " ", "INSCRITO">>,
      <<"No", " ", "está", " ", "inscrito">>,
      PatInscrito,
      <<"EQUIPO", " ", "SE", " ", "ENCUENTRA", " ", "INSCRITO">>,
      <<"Equipo", " ", "se", " ", "encuentra", " ", "inscrito">>,
      PatInscrito \o <<" ">> \o PatNoInscrito,
      PatNoInscrito \o <<" ">> \o PatInscrito,
      <<"no", " ", "inscrito">>,
      <<"no", "está", "inscrito">>,
      <<"equipo", " ", "inscrito">>,
      <<"IMEI", " ", "inválido">>,
      <<>> }
TextTails == { <<>>, <<" ", "correctamente">> }

ServiceTexts == {l \o c \o t : l \in TextLeads, c \in TextCores, t \in TextTails}

AllAnswers ==
    {[kind |-> "ok", resultado |-> t] : t \in ServiceTexts}
        \cup {[kind |-> "nofield"], [kind |-> "network"], [kind |-> "broken"]}

\* Before the call: the subject, and what the service will do if asked.
InitClassify ==
    /\ clock = 0
    /\ imei_batches = << >> /\ imeis = <<>>
    /\ run = [p \in {"p1"} |-> IdleRun]
    /\ NoImport
    /\ NoOthers
    /\ \E imei \in Subjects, ans \in AllAnswers :
         probe = [pc |-> "call", imei |-> imei, ans |-> ans]

\* check_imei_status(imei), lines 26-49: `posted` is the IMEI sent to the
\* service, None when no request is made.
CheckImeiStatus ==
    /\ probe.pc = "call"
    /\ probe' = Update(probe,
                       [pc     |-> "returned",
                        posted |-> IF MakesCall(probe.imei) THEN Strip(probe.imei) ELSE None,
                        result |-> check_imei_status(probe.imei, probe.ans)])
    /\ UNCHANGED <<imei_batches, imeis, clock, run, importVars, otherVars>>

NextClassify == CheckImeiStatus

SpecClassify == InitClassify /\ [][NextClassify]_vars

\* ------------------------------------------------------ the two runners
\* Both scripts, each on its own batch: a store holds either a verification
\* batch, on which bulk_imei_verification is invoked, or an import batch, on
\* which process_imports is invoked.
InitRunners ==
    \/ /\ clock = 0
       /\ run = [p \in {"p1"} |-> IdleRun]
       /\ probe = NoProbe
       /\ NoImport
       /\ NoOthers
       /\ \E n \in 0..MaxItems : \E items \in [1..n -> SharedItems] :
            \E withCompany \in BOOLEAN : InitStore(n, items, withCompany)
    \/ InitImport

NextRunners ==
    \/ \E r \in DOMAIN run : NoImport /\ StartRun(r)
    \/ \E r \in DOMAIN run : LoadBatch(r)
    \/ \E r \in DOMAIN run : QueryItems(r)
    \/ \E r \in DOMAIN run : VerifyImei1(r)
    \/ \E r \in DOMAIN run : VerifyImei2(r)
    \/ \E r \in DOMAIN run : WriteItem(r)
    \/ \E r \in DOMAIN run : CompleteBatch(r)
    \/ \E r \in DOMAIN run : Notify(r)
    \/ \E r \in DOMAIN run : HandleException(r)
    \/ NoBulk /\ ImpStart
    \/ ImpLoad
    \/ ImpStream
    \/ ImpPrepare
    \/ ImpCommit
    \/ ImpCredits
    \/ ImpComplete
    \/ ImpEmail
    \/ ImpHandle

SpecRunners == InitRunners /\ [][NextRunners]_vars

\* ============================================== pending_payment_followup
MaxOrders     == 2     \* documents in 'registros'
MaxFollowRuns == 3     \* invocations of the follow-up script

PENDIENTE == "Pendiente de Pago"
CANCELADO == "Cancelado"
PAGADO    == "Pagado"

MainCompanyId == "main"
OrderIds      == <<"O1", "O2", "O3">>
MailAna       == <<"ana@mail.cl">>

HoursLevel1    == 1    \* hours after creation of the first reminder
HoursLevel2    == 24
HoursLevel3    == 72
LastLevel      == 3    \* the query takes orders below this level
CancelledLevel == 4    \* the level of an order the script cancelled

\* Hours on the wall clock at which a run may start; every order of the
\* model was created at hour 0.
Hours == {0, 1, 24, 72}

\* Orders as the shop leaves them in 'registros'.
OrderShapes ==
    { [status |-> PENDIENTE, companyId |-> MainCompanyId, followUpLevel |-> 0,
       imei1 |-> Imei111, customerEmail |-> MailAna, createdAt |-> 0],
      [status |-> PENDIENTE, companyId |-> MainCompanyId, followUpLevel |-> 1,
       imei1 |-> Imei222, customerEmail |-> MailAna, createdAt |-> 0],
      [status |-> PENDIENTE, companyId |-> MainCompanyId, followUpLevel |-> 2,
       imei1 |-> <<>>, customerEmail |-> MailAna, createdAt |-> 0],
      [status |-> PENDIENTE, companyId |-> MainCompanyId,
       imei1 |-> Imei111, customerEmail |-> MailAna, createdAt |-> 0],
      [status |-> PENDIENTE, companyId |-> "co1", followUpLevel |-> 0,
       imei1 |-> Imei111, customerEmail |-> MailAna, createdAt |-> 0],
      [status |-> PAGADO, companyId |-> MainCompanyId, followUpLevel |-> 0,
       imei1 |-> Imei111, customerEmail |-> MailAna, createdAt |-> 0] }

RECURSIVE FollowUpWhere(_, _)
FollowUpWhere(coll, i) ==
    IF i > Len(coll) THEN <<>>
    ELSE (IF /\ coll[i].status = PENDIENTE
             /\ coll[i].companyId = MainCompanyId
             /\ "followUpLevel" \in DOMAIN coll[i]
             /\ coll[i].followUpLevel < LastLevel
          THEN << [id |-> OrderIds[i], data |-> coll[i]] >>
          ELSE <<>>) \o FollowUpWhere(coll, i + 1)

\* main, lines 144-148: the pending orders of the main company below the
\* last level; an order without followUpLevel does not match '<'.
FollowUpQuery(coll) == FollowUpWhere(coll, 1)

OrderIndex(id) == CHOOSE i \in 1..Len(OrderIds) : OrderIds[i] = id

\* main, lines 167-171: some order with this IMEI and e-mail is not pending.
AnyPaid(coll, imei, email) ==
    \E i \in 1..Len(coll) :
        /\ coll[i].imei1 = imei
        /\ coll[i].customerEmail = email
        /\ coll[i].status # PENDIENTE

\* Answers of the external service to check_external_status:
\*   ok       HTTP 200 with a JSON body whose 'resultado' is the text
\*   status   an answer with another status code
\*   network  requests.exceptions.RequestException
\*   broken   any other exception while reading the answer
ExternalAnswers ==
    { [kind |-> "ok", resultado |-> TxtInscrito],
      [kind |-> "ok", resultado |-> TxtNoInscrito],
      [kind |-> "status"],
      [kind |-> "network"],
      [kind |-> "broken"] }

\* check_external_status(imei) lets the exception through.
ExternalRaises(imei, ans) == Truthy(imei) /\ ans.kind = "broken"

\* The check taking a connection error for a registered device.
check_external_statusMut(imei, ans) ==
    IF ~Truthy(imei) THEN FALSE
    ELSE CASE ans.kind = "ok"      -> Contains(Lower(ans.resultado), PatInscrito)
           [] ans.kind = "network" -> TRUE
           [] OTHER                -> FALSE

\* check_external_status(imei) when the service answers `ans`.
check_external_status(imei, ans) ==
    IF ~Truthy(imei) THEN FALSE
    ELSE CASE ans.kind = "ok"      -> Contains(Lower(ans.resultado), PatInscrito)
           [] OTHER                -> FALSE

\* send_resend_email(api_key, ...) when the mail service answers `post`
\* ("ok", or "error" for a RequestException).
send_resend_email(api_key, post) == api_key /\ post = "ok"

\* The ladder without its waiting times.
NextLevelMut(current_level, hours_since_creation) ==
    IF current_level \in 0..2 THEN current_level + 1 ELSE 0

\* main, lines 187-195: the level of the reminder that is due, 0 for none.
NextLevel(current_level, hours_since_creation) ==
    IF current_level = 0 /\ hours_since_creation >= HoursLevel1 THEN 1
    ELSE IF current_level = 1 /\ hours_since_creation >= HoursLevel2 THEN 2
    ELSE IF current_level = 2 /\ hours_since_creation >= HoursLevel3 THEN 3
    ELSE 0

NoBatches == clock = 0 /\ NoBulk /\ NoImport

InitFollowUp ==
    /\ NoBatches
    /\ NoWeb /\ NoSheet /\ NoReport
    /\ \E n \in 1..MaxOrders : orders \in [1..n -> OrderShapes]
    /\ fu = IdleFollowUp

FuRaise(f) == [f EXCEPT !.pc = "done", !.outcome = "raised"]

\* The loop goes to the next document, or main() returns after the last.
FuAdvance(f) ==
    IF f.index < Len(f.docs_to_process)
    THEN [f EXCEPT !.pc = "paid", !.index = f.index + 1]
    ELSE [f EXCEPT !.pc = "done", !.outcome = "returned"]

\* main, lines 128-140.
FuStart ==
    /\ fu.pc \in {"idle", "done"}
    /\ fu.runs < MaxFollowRuns
    /\ \E init_ok, company_set, key_set \in BOOLEAN, now \in Hours :
        /\ now >= fu.now_utc
        /\ fu' = [IdleFollowUp EXCEPT
                    !.runs = fu.runs + 1,
                    !.now_utc = now,
                    !.cancelled = fu.cancelled,
                    !.resend_api_key = key_set,
                    !.pc = IF init_ok /\ company_set THEN "query" ELSE "done",
                    !.outcome = IF init_ok /\ company_set THEN "none"
                                ELSE "returned"]
    /\ UNCHANGED <<orders, batchVars, webVars, sheetVars, reportVars>>

\* main, lines 142-154.
FuQuery ==
    /\ fu.pc = "query"
    /\ \E ok \in BOOLEAN :
        LET docs == FollowUpQuery(orders) IN
        fu' = IF ~ok THEN FuRaise(fu)
              ELSE IF docs = <<>>
                   THEN [fu EXCEPT !.pc = "done", !.outcome = "returned"]
              ELSE [fu EXCEPT !.pc = "paid", !.docs_to_process = docs,
                              !.index = 1]
    /\ UNCHANGED <<orders, batchVars, webVars, sheetVars, reportVars>>

\* doc.reference.update({'status': 'Cancelado', 'followUpLevel': 4}); continue
FuCancel(f, doc, ok) ==
    IF ok
    THEN /\ orders' = [orders EXCEPT ![OrderIndex(doc.id)] =
                          Update(@, [status |-> CANCELADO,
                                     followUpLevel |-> CancelledLevel])]
         /\ fu' = FuAdvance([f EXCEPT !.cancelled = @ \cup {doc.id}])
    ELSE /\ fu' = FuRaise(f)
         /\ UNCHANGED orders

\* main, lines 156-174: the first check of the order the loop is at.
FuCheckPaid ==
    /\ fu.pc = "paid"
    /\ LET doc == fu.docs_to_process[fu.index] IN
       \E read_ok, write_ok \in BOOLEAN :
        IF ~read_ok THEN fu' = FuRaise(fu) /\ UNCHANGED orders
        ELSE IF AnyPaid(orders, doc.data.imei1, doc.data.customerEmail)
             THEN FuCancel(fu, doc, write_ok)
        ELSE /\ fu' = [fu EXCEPT !.pc = "external"]
             /\ UNCHANGED orders
    /\ UNCHANGED <<batchVars, webVars, sheetVars, reportVars>>

\* main, lines 176-180: the second check.
FuCheckExternal ==
    /\ fu.pc = "external"
    /\ LET doc == fu.docs_to_process[fu.index] IN
       \E ans \in ExternalAnswers, write_ok \in BOOLEAN :
        LET asked == [fu EXCEPT !.external = IF Truthy(doc.data.imei1)
                                             THEN ans
                                             ELSE [kind |-> "skipped"]]
        IN
        IF ExternalRaises(doc.data.imei1, ans)
        THEN fu' = FuRaise(asked) /\ UNCHANGED orders
        ELSE IF check_external_status(doc.data.imei1, ans)
             THEN FuCancel(asked, doc, write_ok)
        ELSE /\ fu' = [asked EXCEPT !.pc = "remind"]
             /\ UNCHANGED orders
    /\ UNCHANGED <<batchVars, webVars, sheetVars, reportVars>>

\* main, lines 182-219: the reminder that is due, and the level after it.
FuRemind ==
    /\ fu.pc = "remind"
    /\ LET doc == fu.docs_to_process[fu.index]
           hours_since_creation == fu.now_utc - doc.data.createdAt
           current_level == IF "followUpLevel" \in DOMAIN doc.data
                            THEN doc.data.followUpLevel ELSE 0
           next_level == NextLevel(current_level, hours_since_creation)
       IN
       \E post \in {"ok", "error"}, write_ok \in BOOLEAN :
        LET email_sent == send_resend_email(fu.resend_api_key, post)
            mailed == [fu EXCEPT !.emails = Append(@,
                          [id |-> doc.id, level |-> next_level,
                           sent |-> email_sent])]
        IN
        IF next_level = 0
        THEN fu' = FuAdvance(fu) /\ UNCHANGED orders
        ELSE IF ~email_sent
             THEN fu' = FuAdvance(mailed) /\ UNCHANGED orders
        ELSE IF ~write_ok
             THEN fu' = FuRaise(mailed) /\ UNCHANGED orders
        ELSE /\ orders' = [orders EXCEPT ![OrderIndex(doc.id)] =
                              Update(@, [followUpLevel |-> next_level])]
             /\ fu' = FuAdvance([mailed EXCEPT
                                   !.updated = Append(@, doc.id)])
    /\ UNCHANGED <<batchVars, webVars, sheetVars, reportVars>>

NextFollowUp ==
    \/ FuStart
    \/ FuQuery
    \/ FuCheckPaid
    \/ FuCheckExternal
    \/ FuRemind

SpecFollowUp == InitFollowUp /\ [][NextFollowUp]_vars

\* ================================================================ main.py
MaxWebDocs == 2        \* documents in 'registros'
MaxWebRuns == 2        \* invocations of main.py

EN_PROCESO == "En Proceso"
LISTO      == "Listo"
WebIds     == <<"W1", "W2", "W3">>

WebNoInscrito ==
    <<"Equipo", " ", "no", " ", "se", " ", "encuentra", " ", "inscrito", ".">>
WebInscrito ==
    <<"Equipo", " ", "se", " ", "encuentra", " ", "inscrito", ".">>
WebTimeout ==
    <<"Error", ":", " ", "La", " ", "página", " ", "no", " ", "respondió",
      " ", "a", " ", "tiempo", ".">>
WebSelenium ==
    <<"Error", " ", "en", " ", "Selenium", ":", " ", "Message", ":", " ",
      "session", " ", "deleted">>

PatNoSeEncuentra == <<"no", " ", "se", " ", "encuentra", " ", "inscrito">>
PatError         == <<"error">>

\* What the browser meets on the page of the registry:
\*   notfound   the 'not found' answer becomes visible
\*   silent     it does not become visible within five seconds
\*   timeout    the form itself does not show up in time
\*   exception  any other failure of the driver
Pages == {"notfound", "silent", "timeout", "exception"}

\* verificar_imei_selenium(driver, imei)
verificar_imei_selenium(page) ==
    CASE page = "notfound" -> WebNoInscrito
      [] page = "silent"   -> WebInscrito
      [] page = "timeout"  -> WebTimeout
      [] OTHER             -> WebSelenium

\* The test that only looks for an error.
InscritoMut(resultado_web) ==
    ~Contains(Lower(resultado_web), PatError)

\* main.py, line 164: the result counts as registered.
Inscrito(resultado_web) ==
    /\ ~Contains(Lower(resultado_web), PatNoSeEncuentra)
    /\ ~Contains(Lower(resultado_web), PatError)

\* main.py, lines 158-161: datos_para_actualizar_local
DatosParaActualizar(resultado_web, now) ==
    [resultado_verificacion |-> resultado_web, fecha_verificacion |-> now]

\* procesar_orden_lista(order_number) sends its request.
SendsRequest(api_key) == api_key

\* Documents of 'registros' as the shop and earlier runs leave them.
WebShapes ==
    { [status |-> EN_PROCESO, imei1 |-> Imei111],
      [status |-> EN_PROCESO],
      [status |-> EN_PROCESO, imei1 |-> <<>>],
      [status |-> LISTO, imei1 |-> Imei333] }

RECURSIVE WebWhere(_, _)
WebWhere(coll, i) ==
    IF i > Len(coll) THEN <<>>
    ELSE (IF coll[i].status = EN_PROCESO
          THEN << [id |-> WebIds[i], data |-> coll[i]] >>
          ELSE <<>>) \o WebWhere(coll, i + 1)

\* main.py, lines 134-136
WebQueryDocs(coll) == WebWhere(coll, 1)

WebIndex(id) == CHOOSE i \in 1..Len(WebIds) : WebIds[i] = id

StartedWeb ==
    [ pc              |-> "query",
      runs            |-> 0,
      api_key         |-> FALSE,     \* REGISTRATION_API_KEY is set
      now             |-> 0,         \* the wall clock: it ticks between runs
      docs_a_procesar |-> <<>>,
      index           |-> 0,
      resultado_web   |-> <<>>,
      outcome         |-> "none",    \* "returned" | "raised" once the script ended
      last            |-> [id |-> "none"] ]   \* the latest verification

InitWeb ==
    /\ NoBatches
    /\ NoFollowUp /\ NoSheet /\ NoReport
    /\ \E n \in 1..MaxWebDocs : web_docs \in [1..n -> WebShapes]
    /\ web = [StartedWeb EXCEPT !.pc = "idle"]

WebRaise(w) == [w EXCEPT !.pc = "done", !.outcome = "raised"]

\* The loop goes to the next document, or the script ends after the last.
WebAdvance(w) ==
    IF w.index < Len(w.docs_a_procesar)
    THEN [w EXCEPT !.pc = "verify", !.index = w.index + 1]
    ELSE [w EXCEPT !.pc = "done", !.outcome = "returned"]

\* main.py, lines 26-29 and 118-129: the configuration, the store, the driver.
WebStart ==
    /\ web.pc \in {"idle", "done"}
    /\ web.runs < MaxWebRuns
    /\ \E started, key_set \in BOOLEAN :
        web' = IF started
               THEN [StartedWeb EXCEPT !.runs = web.runs + 1,
                                       !.now = web.now + 1,
                                       !.api_key = key_set]
               ELSE WebRaise([StartedWeb EXCEPT !.runs = web.runs + 1,
                                                !.now = web.now + 1,
                                                !.api_key = key_set])
    /\ UNCHANGED <<web_docs, batchVars, followVars, sheetVars, reportVars>>

\* main.py, lines 131-142
WebQuery ==
    /\ web.pc = "query"
    /\ \E ok \in BOOLEAN :
        web' = IF ~ok THEN WebRaise(web)
               ELSE WebAdvance([web EXCEPT
                                  !.docs_a_procesar = WebQueryDocs(web_docs)])
    /\ UNCHANGED <<web_docs, batchVars, followVars, sheetVars, reportVars>>

\* main.py, lines 144-161: a document without IMEI is skipped, any other is
\* looked up on the page.
WebVerify ==
    /\ web.pc = "verify"
    /\ LET doc == web.docs_a_procesar[web.index]
           imei_actual == Get(doc.data, "imei1")
       IN
       \E page \in Pages :
        LET resultado_web == verificar_imei_selenium(page) IN
        web' = IF ~Truthy(imei_actual) THEN WebAdvance(web)
               ELSE [web EXCEPT
                       !.pc = "process",
                       !.resultado_web = resultado_web,
                       !.last = [id |-> doc.id,
                                 resultado |-> resultado_web,
                                 request |-> "none",
                                 updated |-> FALSE]]
    /\ UNCHANGED <<web_docs, batchVars, followVars, sheetVars, reportVars>>

\* main.py, lines 164-168, and procesar_orden_lista: the request to the
\* order API and its answer ("200", or "failed" for any other status and for
\* an exception).
WebProcess ==
    /\ web.pc = "process"
    /\ \E answer \in IF Inscrito(web.resultado_web) /\ SendsRequest(web.api_key)
                     THEN {"200", "failed"} ELSE {"none"} :
        web' = [web EXCEPT !.pc = "update", !.last.request = answer]
    /\ UNCHANGED <<web_docs, batchVars, followVars, sheetVars, reportVars>>

\* main.py, lines 170-173
WebUpdate ==
    /\ web.pc = "update"
    /\ LET doc == web.docs_a_procesar[web.index] IN
       \E ok \in BOOLEAN :
        IF ok
        THEN /\ web_docs' = [web_docs EXCEPT ![WebIndex(doc.id)] =
                    Update(@, DatosParaActualizar(web.resultado_web, web.now))]
             /\ web' = WebAdvance([web EXCEPT !.last.updated = TRUE])
        ELSE /\ web' = WebRaise(web)
             /\ UNCHANGED web_docs
    /\ UNCHANGED <<batchVars, followVars, sheetVars, reportVars>>

NextWeb ==
    \/ WebStart
    \/ WebQuery
    \/ WebVerify
    \/ WebProcess
    \/ WebUpdate

SpecWeb == InitWeb /\ [][NextWeb]_vars

\* ============================================================== script.py
MaxRows      == 2      \* rows of the worksheet under its header
MaxSheetRuns == 2      \* invocations of script.py

\* Cells are texts.
CeldaEnProceso == <<"En", " ", "Proceso">>
CeldaListo     == <<"Listo">>
ColumnaEstado  == <<"Estado">>
ColumnaImei    == <<"IMEI", " ", "1">>
ColumnaNota    == <<"Nota">>
CeldaNota      == <<"llamar", " ", "al", " ", "cliente">>

\* Header rows: the columns in two orders, and a sheet without 'Estado'.
Headers ==
    { <<ColumnaImei, ColumnaEstado, ColumnaNota>>,
      <<ColumnaEstado, ColumnaNota, ColumnaImei>>,
      <<ColumnaImei, ColumnaNota, <<"Fecha">> >> }

\* The rows people keep in the sheet, by column name.
RowShapes ==
    [ imei : {Imei111, <<>>}, estado : {CeldaEnProceso, CeldaListo, <<>>} ]

\* The cell of a row under a header.
CellFor(header, shape) ==
    CASE header = ColumnaImei   -> shape.imei
      [] header = ColumnaEstado -> shape.estado
      [] header = ColumnaNota   -> CeldaNota
      [] OTHER                  -> <<>>

\* The grid with this header row over these rows.
Grid(header, shapes) ==
    <<header>> \o [i \in 1..Len(shapes) |->
                     [c \in 1..Len(header) |-> CellFor(header[c], shapes[i])]]

\* hoja.get_all_records(): one dict per row under the header, keyed by the
\* header's cells.
get_all_records(grid) ==
    [i \in 1..(Len(grid) - 1) |->
        [h \in {grid[1][c] : c \in 1..Len(grid[1])} |->
            grid[i + 1][CHOOSE c \in 1..Len(grid[1]) : grid[1][c] = h]]]

CellsWith(grid, value) ==
    {rc \in (1..Len(grid)) \X (1..Len(grid[1])) : grid[rc[1]][rc[2]] = value}

\* hoja.find(value): the first cell with this value, row by row; none when
\* there is no such cell.
find(grid, value) ==
    IF CellsWith(grid, value) = {} THEN [row |-> 0, col |-> 0]
    ELSE LET first == CHOOSE rc \in CellsWith(grid, value) :
                        \A o \in CellsWith(grid, value) :
                            rc[1] < o[1] \/ (rc[1] = o[1] /\ rc[2] <= o[2])
         IN [row |-> first[1], col |-> first[2]]

\* hoja.update_cell(row, col, value)
update_cell(grid, row, col, value) == [grid EXCEPT ![row][col] = value]

\* The row number taken for the index itself plus the header.
NumeroFilaRealMut(indice) == indice + 1

\* script.py, line 124: numero_fila_real for the 0-based index of enumerate
NumeroFilaReal(indice) == indice + 2

\* script.py, verificar_imei_selenium(driver, imei)
verificar_imei_hoja(page) ==
    CASE page = "notfound" -> WebNoInscrito
      [] page = "silent"   -> WebInscrito
      [] page = "timeout"  -> WebTimeout
      [] OTHER             -> WebSelenium

\* script.py, line 126: the row is to be verified.
PorVerificar(fila) ==
    /\ Get(fila, ColumnaEstado) = CeldaEnProceso
    /\ Truthy(Get(fila, ColumnaImei))

\* script.py, lines 134-144: the value written to the state cell, None for
\* a row that is not written.
NuevoEstado(resultado_web) ==
    IF Contains(Lower(resultado_web), PatError) THEN resultado_web
    ELSE IF Contains(Lower(resultado_web), PatNoSeEncuentra) THEN None
    ELSE CeldaListo

StartedSheet ==
    [ pc               |-> "read",
      runs             |-> 0,
      filas            |-> <<>>,
      col_estado_index |-> 0,
      indice           |-> 0,        \* the index enumerate() is at
      outcome          |-> "none",   \* "returned" | "raised" | "exit" at the end
      verified         |-> <<>> ]    \* this run's verifications: row and result

InitSheet ==
    /\ NoBatches
    /\ NoFollowUp /\ NoWeb /\ NoReport
    /\ \E header \in Headers, n \in 1..MaxRows :
        \E shapes \in [1..n -> RowShapes] : hoja = Grid(header, shapes)
    /\ planilla = [StartedSheet EXCEPT !.pc = "idle"]

SheetEnd(p, outcome) == [p EXCEPT !.pc = "done", !.outcome = outcome]

\* The loop goes to the next row, or the script ends after the last.
SheetAdvance(p) ==
    IF p.indice + 1 < Len(p.filas)
    THEN [p EXCEPT !.indice = p.indice + 1]
    ELSE SheetEnd(p, "returned")

\* script.py, lines 90-114: the connection (None: exit(1)) and the driver.
SheetStart ==
    /\ planilla.pc \in {"idle", "done"}
    /\ planilla.runs < MaxSheetRuns
    /\ \E connected, driver_ok \in BOOLEAN :
        LET p == [StartedSheet EXCEPT !.runs = planilla.runs + 1] IN
        planilla' = IF ~connected THEN SheetEnd(p, "exit")
                    ELSE IF ~driver_ok THEN SheetEnd(p, "raised")
                    ELSE p
    /\ UNCHANGED <<hoja, batchVars, followVars, webVars, reportVars>>

\* script.py, lines 116-122: the records, the columns, the first row.
SheetRead ==
    /\ planilla.pc = "read"
    /\ \E ok \in BOOLEAN :
        LET filas == get_all_records(hoja)
            estado == find(hoja, ColumnaEstado)
            imei == find(hoja, ColumnaImei)
        IN
        planilla' =
            IF ~ok \/ estado.row = 0 \/ imei.row = 0
            THEN SheetEnd(planilla, "raised")
            ELSE IF filas = <<>> THEN SheetEnd(planilla, "returned")
            ELSE [planilla EXCEPT !.pc = "row", !.filas = filas,
                                  !.col_estado_index = estado.col,
                                  !.indice = 0]
    /\ UNCHANGED <<hoja, batchVars, followVars, webVars, reportVars>>

\* script.py, lines 122-144: one turn of the loop.
SheetRow ==
    /\ planilla.pc = "row"
    /\ LET fila == planilla.filas[planilla.indice + 1]
           numero_fila_real == NumeroFilaReal(planilla.indice)
       IN
       \E page \in Pages, ok \in BOOLEAN :
        LET resultado_web == verificar_imei_hoja(page)
            seen == [planilla EXCEPT !.verified = Append(@,
                        [fila |-> numero_fila_real,
                         resultado |-> resultado_web])]
        IN
        IF ~PorVerificar(fila)
        THEN planilla' = SheetAdvance(planilla) /\ UNCHANGED hoja
        ELSE IF NuevoEstado(resultado_web) = None
             THEN planilla' = SheetAdvance(seen) /\ UNCHANGED hoja
        ELSE IF ~ok
             THEN planilla' = SheetEnd(seen, "raised") /\ UNCHANGED hoja
        ELSE /\ hoja' = update_cell(hoja, numero_fila_real,
                                    planilla.col_estado_index,
                                    NuevoEstado(resultado_web))
             /\ planilla' = SheetAdvance(seen)
    /\ UNCHANGED <<batchVars, followVars, webVars, reportVars>>

NextSheet ==
    \/ SheetStart
    \/ SheetRead
    \/ SheetRow

SpecSheet == InitSheet /\ [][NextSheet]_vars

\* ================================================== script_reporte_sheets
MaxReportDocs == 2     \* documents in 'registros'
MaxReportRuns == 2     \* invocations of the report script

\* Field values are texts or Firestore timestamps.
Str(text)       == [t |-> "str", v |-> text]
Ts(date, time)  == [t |-> "ts", date |-> date, time |-> time]

RECIBIDO    == Str(<<"Recibido">>)
ENPROCESO   == Str(<<"En", " ", "Proceso">>)
ReportIds   == <<"R1", "R2", "R3">>

\* Records as the shop leaves them in 'registros'.
ReportShapes ==
    { [status |-> RECIBIDO, orderNumber |-> Str(<<"1001">>),
       imei1 |-> Str(Imei111), brand |-> Str(<<"Acme">>),
       createdAt |-> Ts("2024-05-01", "10:00:00")],
      [status |-> RECIBIDO, orderNumber |-> Str(<<"1002">>),
       imei1 |-> Str(Imei222), imei2 |-> Str(Imei333)],
      [status |-> ENPROCESO, orderNumber |-> Str(<<"1003">>),
       imei1 |-> Str(Imei111),
       createdAt |-> Ts("2024-04-30", "09:30:00")] }

\* format_timestamp(timestamp): a date as text, anything else as it is.
format_timestamp(value) ==
    IF value.t = "ts" THEN <<value.date, " ", value.time>> ELSE value.v

\* main, lines 97-106
firebase_fields_order ==
    <<"orderNumber", "imei1", "imei2", "serialNumber", "brand", "model",
      "status", "createdAt">>

\* main, lines 110-120: full_row of one record
FullRow(reg) ==
    [k \in 1..Len(firebase_fields_order) |->
        format_timestamp(IF firebase_fields_order[k] \in DOMAIN reg
                         THEN reg[firebase_fields_order[k]] ELSE Str(<<>>))]
    \o << <<>>, <<>>, <<>>, <<>>, <<"RIM", " ", "APP">>, <<>>, <<>>, <<"OK">> >>

\* The rows of all the records but the last.
DatosParaSheetsMut(docs) ==
    [k \in 1..(Len(docs) - 1) |-> FullRow(docs[k].data)]

\* main, lines 108-121: datos_para_sheets
DatosParaSheets(docs) ==
    [k \in 1..Len(docs) |-> FullRow(docs[k].data)]

RECURSIVE ReportWhere(_, _)
ReportWhere(coll, i) ==
    IF i > Len(coll) THEN <<>>
    ELSE (IF coll[i].status = RECIBIDO
          THEN << [id |-> ReportIds[i], data |-> coll[i]] >>
          ELSE <<>>) \o ReportWhere(coll, i + 1)

\* main, lines 65-67
ReportQueryDocs(coll) == ReportWhere(coll, 1)

ReportIndex(id) == CHOOSE i \in 1..Len(ReportIds) : ReportIds[i] = id

StartedReport ==
    [ pc              |-> "query",
      runs            |-> 0,
      docs_a_procesar |-> <<>>,
      index           |-> 0,        \* the document the update loop is at
      outcome         |-> "none",   \* "returned" | "raised" once main() ended
      rows0           |-> 0,        \* rows of the worksheet when the run began
      updated         |-> <<>>,     \* ids whose status this run has set
      failed          |-> <<>> ]    \* ids whose update failed in this run

InitReport ==
    /\ NoBatches
    /\ NoFollowUp /\ NoWeb /\ NoSheet
    /\ \E n \in 1..MaxReportDocs : rep_docs \in [1..n -> ReportShapes]
    /\ worksheet = <<>>
    /\ report = [StartedReport EXCEPT !.pc = "idle"]

RepRaise(r) == [r EXCEPT !.pc = "done", !.outcome = "raised"]

\* The update loop goes to the next document, or main() returns.
RepAdvance(r) ==
    IF r.index < Len(r.docs_a_procesar)
    THEN [r EXCEPT !.index = r.index + 1]
    ELSE [r EXCEPT !.pc = "done", !.outcome = "returned"]

\* main, lines 43-62: the store and the credentials of the sheet.
RepStart ==
    /\ report.pc \in {"idle", "done"}
    /\ report.runs < MaxReportRuns
    /\ \E ok \in BOOLEAN :
        LET r == [StartedReport EXCEPT !.runs = report.runs + 1,
                                       !.rows0 = Len(worksheet)] IN
        report' = IF ok THEN r ELSE RepRaise(r)
    /\ UNCHANGED <<rep_docs, worksheet, batchVars, followVars, webVars, sheetVars>>

\* main, lines 64-73
RepQuery ==
    /\ report.pc = "query"
    /\ \E ok \in BOOLEAN :
        LET docs == ReportQueryDocs(rep_docs) IN
        report' = IF ~ok THEN RepRaise(report)
                  ELSE IF docs = <<>>
                       THEN [report EXCEPT !.pc = "done", !.outcome = "returned"]
                  ELSE [report EXCEPT !.pc = "open", !.docs_a_procesar = docs]
    /\ UNCHANGED <<rep_docs, worksheet, batchVars, followVars, webVars, sheetVars>>

\* main, lines 75-93
RepOpen ==
    /\ report.pc = "open"
    /\ \E ok \in BOOLEAN :
        report' = IF ok THEN [report EXCEPT !.pc = "append"]
                  ELSE RepRaise(report)
    /\ UNCHANGED <<rep_docs, worksheet, batchVars, followVars, webVars, sheetVars>>

\* main, lines 95-129: the rows and the one call of append_rows, which
\* answers ("ok"), fails ("failed"), or fails after the sheet took the rows
\* ("lost").
RepAppend ==
    /\ report.pc = "append"
    /\ \E answer \in {"ok", "failed", "lost"} :
        /\ worksheet' = IF answer = "failed" THEN worksheet
                        ELSE worksheet \o DatosParaSheets(report.docs_a_procesar)
        /\ report' = IF answer = "ok"
                     THEN [report EXCEPT !.pc = "update", !.index = 1]
                     ELSE RepRaise(report)
    /\ UNCHANGED <<rep_docs, batchVars, followVars, webVars, sheetVars>>

\* main, lines 134-142: one turn of the update loop.
RepUpdate ==
    /\ report.pc = "update"
    /\ LET doc == report.docs_a_procesar[report.index] IN
       \E ok \in BOOLEAN :
        IF ok
        THEN /\ rep_docs' = [rep_docs EXCEPT ![ReportIndex(doc.id)] =
                                Update(@, [status |-> ENPROCESO])]
             /\ report' = RepAdvance([report EXCEPT
                                        !.updated = Append(@, doc.id)])
        ELSE /\ report' = RepAdvance([report EXCEPT
                                        !.failed = Append(@, doc.id)])
             /\ UNCHANGED rep_docs
    /\ UNCHANGED <<worksheet, batchVars, followVars, webVars, sheetVars>>

NextReport ==
    \/ RepStart
    \/ RepQuery
    \/ RepOpen
    \/ RepAppend
    \/ RepUpdate

SpecReport == InitReport /\ [][NextReport]_vars

\* ------------------------------------------------------------------ claims
Batch == imei_batches[BatchId]
HasBatch == BatchId \in DOMAIN imei_batches
Item(id) == imeis[IndexOf(id)]
Ended(r) == run[r].pc = "done"
Returned(r) == Ended(r) /\ run[r].outcome = "returned"
Raised(r) == Ended(r) /\ run[r].outcome = "raised"
Range(seq) == {seq[i] : i \in 1..Len(seq)}

\* C1: when a run finishes without raising, every item that was pending when
\* the run queried is verified, with result1 set when its imei1 is present
\* and result2 set when its imei2 is present.
C1_PendingItemsVerified ==
    \A r \in DOMAIN run :
        Returned(r) =>
            \A id \in run[r].eligible :
                /\ Item(id).status = VERIFIED
                /\ Truthy(Get(Item(id), "imei1")) => "result1" \in DOMAIN Item(id)
                /\ Truthy(Get(Item(id), "imei2")) => "result2" \in DOMAIN Item(id)

\* A run returned after verifying two items, one of them through a call the
\* service failed.
C1_Witness ==
    \E r \in DOMAIN run :
        /\ Returned(r)
        /\ Cardinality(run[r].eligible) >= 2
        /\ \E i \in 1..Len(run[r].calls) : run[r].calls[i].ans = "network"
        /\ \E id \in run[r].eligible : "result2" \in DOMAIN Item(id)

\* C2: once main has marked the batch completed and called the notifier,
\* whatever happens inside send_completion_notification the batch stays
\* completed.
C2_NotifierKeepsCompleted ==
    \A r \in DOMAIN run :
        run[r].notified # "none" => HasBatch /\ Batch.status = "completed"

BothBlank(doc) == ~Truthy(Get(doc, "imei1")) /\ ~Truthy(Get(doc, "imei2"))

\* C3: after a run that returned, an item that was pending and has both
\* subjects blank (empty or missing) is verified and both its results are
\* the empty sentinel.
C3_BlankItemGetsSentinels ==
    \A r \in DOMAIN run :
        Returned(r) =>
            \A id \in run[r].eligible :
                BothBlank(Item(id)) =>
                    /\ Item(id).status = VERIFIED
                    /\ Get(Item(id), "result1") = Vacio
                    /\ Get(Item(id), "result2") = Vacio

IsScenario ==
    /\ Len(imeis) = 2
    /\ Get(imeis[1], "imei1") = Imei111 /\ Get(imeis[1], "imei2") = <<>>
    /\ Get(imeis[2], "imei1") = Imei222 /\ Get(imeis[2], "imei2") = Imei333

AllRegistered(r) ==
    \A i \in 1..Len(run[r].calls) : run[r].calls[i].ans = "ok"

\* What the scenario expects of everything but item A's second result.
ScenarioRest ==
    /\ Get(imeis[1], "result1") = EquipoInscrito
    /\ Get(imeis[2], "result1") = EquipoInscrito
    /\ Get(imeis[2], "result2") = EquipoInscrito
    /\ imeis[1].status = VERIFIED /\ imeis[2].status = VERIFIED
    /\ Batch.status = "completed"

\* C4: the scenario: items A (111111111111111, "") and C (222222222222222,
\* 333333333333333) pending, the service answers "registered" to every
\* request; after the run A has result1 "Equipo inscrito correctamente" and
\* result2 "Vacío", C has both results "Equipo inscrito correctamente",
\* both are verified and the batch is completed.
C4_Scenario ==
    \A r \in DOMAIN run :
        (IsScenario /\ Returned(r) /\ run[r].eligible = {"A", "C"} /\ AllRegistered(r)) =>
            /\ ScenarioRest
            /\ Get(imeis[1], "result2") = Vacio

\* The scenario's run ends as expected but for A's second result, which is
\* not written.
C4_ScenarioAsCoded ==
    \A r \in DOMAIN run :
        (IsScenario /\ Returned(r) /\ run[r].eligible = {"A", "C"} /\ AllRegistered(r)) =>
            /\ ScenarioRest
            /\ "result2" \notin DOMAIN imeis[1]

Terminal == HasBatch /\ Batch.status \in {"completed", "failed"}

\* C5 as stated: whenever a run has ended, returning or raising, the batch
\* is completed or failed.
C5_AlwaysTerminal == \A r \in DOMAIN run : Ended(r) => Terminal

\* C5 amended: a run that returns leaves the batch completed; a run that
\* raises with anything but a missing BATCH_ID or missing credentials leaves
\* it failed with the error's text, provided the handler's write went
\* through; a run that raises on missing configuration makes no write to
\* the batch.
C5_TerminalWhenMarked ==
    \A r \in DOMAIN run :
        /\ Returned(r) => HasBatch /\ Batch.status = "completed"
        /\ (Raised(r) /\ run[r].marked # "update_failed"
                      /\ run[r].exc \notin {ErrCredentials, ErrBatchId}) =>
               HasBatch /\ Batch.status = "failed" /\ Batch.error = run[r].exc
        /\ (Raised(r) /\ run[r].exc \in {ErrCredentials, ErrBatchId}) =>
               run[r].marked = "no_batch_ref"

\* A run raised on a store read error and its handler marked the batch
\* failed.
C5_Witness ==
    \E r \in DOMAIN run :
        /\ Raised(r) /\ run[r].marked = "failed"
        /\ run[r].exc = ErrStoreRead
        /\ Batch.status = "failed"

\* C6 as stated: a failed store write (an item's, or the one marking the
\* batch completed) ends the run raised, with the batch failed and the
\* error's text in its error field.
C6_WriteErrorMarksFailed ==
    \A r \in DOMAIN run :
        (Ended(r) /\ run[r].exc = ErrStoreWrite) =>
            /\ run[r].outcome = "raised"
            /\ Batch.status = "failed"
            /\ "error" \in DOMAIN Batch /\ Batch.error = ErrStoreWrite

\* Items of the snapshot the run had not reached when it stopped.
NotReached(r) ==
    {run[r].docs_to_process[i].id :
        i \in (run[r].processed_count + 1)..Len(run[r].docs_to_process)}

\* C6 amended: a failed store write aborts the run, which raises; the items
\* it had not written stay pending; the batch is failed with the error's
\* text if the handler's write went through, and is not marked completed
\* by this run otherwise.
C6_WriteErrorAborts ==
    \A r \in DOMAIN run :
        (Ended(r) /\ run[r].exc = ErrStoreWrite) =>
            /\ run[r].outcome = "raised"
            /\ run[r].notified = "none"
            /\ \A id \in NotReached(r) : Item(id).status = PENDING
            /\ Range(run[r].writes) \cap NotReached(r) = {}
            /\ run[r].marked # "update_failed" =>
                   Batch.status = "failed" /\ Batch.error = ErrStoreWrite
            /\ run[r].marked = "update_failed" =>
                   ("completedAt" \in DOMAIN Batch => Batch.completedAt < clock)

\* The write of the second item failed after the first was written, and the
\* handler marked the batch failed.
C6_Witness ==
    \E r \in DOMAIN run :
        /\ Raised(r) /\ run[r].exc = ErrStoreWrite
        /\ Len(run[r].writes) = 1 /\ NotReached(r) # {}
        /\ Batch.status = "failed"

\* C9 as stated: a run that finds no pending item writes no item, calls the
\* service for nothing, and leaves the batch completed.
C9_EmptyRunCompletes ==
    \A r \in DOMAIN run :
        (Ended(r) /\ run[r].queried /\ run[r].eligible = {}) =>
            /\ run[r].writes = <<>>
            /\ run[r].calls = <<>>
            /\ Batch.status = "completed"

\* C9 amended: a run that finds no pending item writes no item and calls
\* the service for nothing; when it returns without raising the batch is
\* completed.
C9_EmptyRunIdempotent ==
    \A r \in DOMAIN run :
        (run[r].queried /\ run[r].eligible = {}) =>
            /\ run[r].writes = <<>>
            /\ run[r].calls = <<>>
            /\ Returned(r) => Batch.status = "completed"

\* A second run on a batch whose two items an earlier run verified.
C9_Witness ==
    \E r \in DOMAIN run :
        /\ Returned(r) /\ run[r].queried /\ run[r].eligible = {}
        /\ Len(imeis) = 2 /\ clock = 2
        /\ \A i \in 1..Len(imeis) : imeis[i].status = VERIFIED /\ imeis[i].verifiedAt = 1
        /\ Batch.status = "completed"

\* C10: a run makes verification calls and writes only for items that were
\* pending when it queried, and an item that is verified keeps its results,
\* its timestamp and its status in every step of a later run.
C10_VerifiedUntouched ==
    /\ [](\A r \in DOMAIN run :
            /\ Range(run[r].writes) \subseteq run[r].eligible
            /\ \A i \in 1..Len(run[r].calls) : run[r].calls[i].doc \in run[r].eligible)
    /\ [][\A i \in 1..Len(imeis) :
            imeis[i].status = VERIFIED => imeis'[i] = imeis[i]]_vars

\* The first run wrote item A and aborted (the batch carries its error); the
\* second run verified the rest and returned.
C10_Witness ==
    \E r \in DOMAIN run :
        /\ Returned(r) /\ clock = 2
        /\ "error" \in DOMAIN Batch
        /\ Len(imeis) = 2
        /\ imeis[1].status = VERIFIED /\ imeis[1].verifiedAt = 1
        /\ imeis[2].status = VERIFIED /\ imeis[2].verifiedAt = 2
        /\ run[r].writes = <<"C">>

\* ------------------------------------------------- bulk runner, C11..C18
\* The sentinel a failed call leaves in the subject's result field.
SentinelOf(kind) == IF kind = "network" THEN ErrorDeConexion ELSE ErrorEnScript
ResultField(slot) == IF slot = 1 THEN "result1" ELSE "result2"
StoreErrors == {ErrStoreRead, ErrStoreWrite}

\* C11: a verification call that fails (transport failure, or any other
\* failure) never aborts the run: the run goes on to the item's write with
\* 'Error de Conexión' (transport) or 'Error en Script' (other) as that
\* subject's result and status verified, the written item carries them, a
\* run that has queried aborts on store errors only, and a run that returns
\* has written every item of its snapshot, those after the failed call
\* included.
C11_CallFailureRecorded ==
    \A r \in DOMAIN run :
        \A i \in 1..Len(run[r].calls) :
            LET c == run[r].calls[i] IN
            c.ans \in {"network", "broken"} =>
                /\ (run[r].pc = "except" \/ Raised(r)) => run[r].exc \in StoreErrors
                /\ (run[r].pc \in {"imei2", "write"} /\ Doc(r).id = c.doc) =>
                       Get(run[r].update_data, ResultField(c.slot)) = SentinelOf(c.ans)
                /\ (run[r].pc = "write" /\ Doc(r).id = c.doc) =>
                       run[r].update_data.status = VERIFIED
                /\ c.doc \in Range(run[r].writes) =>
                       /\ Item(c.doc).status = VERIFIED
                       /\ Get(Item(c.doc), ResultField(c.slot)) = SentinelOf(c.ans)
                /\ Returned(r) =>
                       /\ run[r].eligible \subseteq Range(run[r].writes)
                       /\ \A id \in run[r].eligible : Item(id).status = VERIFIED

\* The call for the first item failed with something other than a transport
\* failure, the one for the second with a transport failure; both items were
\* written and the run returned.
C11_Witness ==
    \E r \in DOMAIN run :
        /\ Returned(r)
        /\ Len(run[r].calls) = 2
        /\ run[r].calls[1].doc = "A" /\ run[r].calls[1].ans = "broken"
        /\ run[r].calls[2].doc = "C" /\ run[r].calls[2].ans = "network"
        /\ run[r].writes = <<"A", "C">>
        /\ Get(Item("A"), "result1") = ErrorEnScript
        /\ Get(Item("C"), ResultField(run[r].calls[2].slot)) = ErrorDeConexion

\* C12: when the batch document does not exist the run raises to its
\* caller: it never gets to the query, writes no item, calls the service
\* for nothing, sends no notification, and no batch document is created
\* (the handler's update of the missing document fails).
C12_MissingBatchIsFatal ==
    \A r \in DOMAIN run :
        /\ ~HasBatch => run[r].pc \in {"idle", "load", "except", "done"}
        /\ run[r].exc = ErrNotFound =>
               /\ ~HasBatch
               /\ run[r].pc \in {"except", "done"}
               /\ ~run[r].queried
               /\ run[r].writes = <<>> /\ run[r].calls = <<>>
               /\ run[r].notified = "none"
               /\ \A i \in 1..Len(imeis) : imeis[i] \in NewItems
               /\ Ended(r) => run[r].outcome = "raised" /\ run[r].marked = "update_failed"

\* A run on a batch identifier without document, with two item documents
\* under it, has raised "not found".
C12_Witness ==
    \E r \in DOMAIN run :
        /\ Raised(r) /\ run[r].exc = ErrNotFound
        /\ ~HasBatch
        /\ Len(imeis) = 2

\* The run has written status completed to the batch (line 156).
WroteCompleted(r) ==
    run[r].pc = "notify" \/ Returned(r) \/ run[r].notified # "none"

\* C15: a run writes completed to the batch only after it has written every
\* item of its snapshot verified: whenever it has written completed no
\* item it selected is pending, and a batch that carries this run's
\* completion timestamp was completed by it at that point.
C15_CompletedAfterItems ==
    \A r \in DOMAIN run :
        /\ WroteCompleted(r) =>
               /\ run[r].processed_count = Len(run[r].docs_to_process)
               /\ \A id \in run[r].eligible :
                      Item(id).status = VERIFIED /\ id \in Range(run[r].writes)
        /\ (run[r].pc # "idle" /\ HasBatch /\ "completedAt" \in DOMAIN Batch
                /\ Batch.completedAt = clock) => WroteCompleted(r)

\* The run has just written completed after writing its two items.
C15_Witness ==
    \E r \in DOMAIN run :
        /\ run[r].pc = "notify"
        /\ Cardinality(run[r].eligible) = 2 /\ Len(run[r].writes) = 2
        /\ Batch.status = "completed" /\ Batch.completedAt = clock

\* The ids of the snapshot in the order of the loop.
SnapshotIds(r) == [i \in 1..Len(run[r].docs_to_process) |-> run[r].docs_to_process[i].id]
Position(r, id) == CHOOSE i \in 1..Len(run[r].docs_to_process) : SnapshotIds(r)[i] = id

\* C16: in one run every item of the snapshot is processed once, in the
\* order of the snapshot: the writes are the first items of the snapshot,
\* one write each, of items that were pending at the query; there is at
\* most one call per subject, an item's call for imei1 comes before its call
\* for imei2, calls follow the order of the snapshot, and a call is made
\* only for the item the loop is at, which is not written yet; a run that
\* returns has written every item it selected.
C16_OncePerItemInOrder ==
    /\ [](\A r \in DOMAIN run :
            /\ run[r].writes = SubSeq(SnapshotIds(r), 1, run[r].processed_count)
            /\ Range(SnapshotIds(r)) = run[r].eligible
            /\ Cardinality(run[r].eligible) = Len(run[r].docs_to_process)
            /\ Range(run[r].writes) \subseteq run[r].eligible
            /\ \A i, j \in 1..Len(run[r].calls) :
                   LET c == run[r].calls[i]
                       d == run[r].calls[j]
                   IN  i < j =>
                         /\ c.doc \in run[r].eligible
                         /\ Position(r, c.doc) <= Position(r, d.doc)
                         /\ c.doc = d.doc => c.slot = 1 /\ d.slot = 2
            /\ Returned(r) => Range(run[r].writes) = run[r].eligible)
    /\ [][\A r \in DOMAIN run :
            Len(run'[r].calls) > Len(run[r].calls) =>
                LET c == run'[r].calls[Len(run'[r].calls)] IN
                /\ Len(run'[r].calls) = Len(run[r].calls) + 1
                /\ c.doc = Doc(r).id
                /\ c.doc \notin Range(run'[r].writes)
                /\ imeis[IndexOf(c.doc)].status = PENDING]_vars

\* The scenario's run: one call for A, two for C, A written before C.
C16_Witness ==
    \E r \in DOMAIN run :
        /\ Returned(r)
        /\ run[r].writes = <<"A", "C">>
        /\ Len(run[r].calls) = 3
        /\ run[r].calls[1].doc = "A" /\ run[r].calls[1].slot = 1
        /\ run[r].calls[2].doc = "C" /\ run[r].calls[2].slot = 1
        /\ run[r].calls[3].doc = "C" /\ run[r].calls[3].slot = 2

\* What a written item carries: status verified, this run's timestamp and a
\* result for each subject that was checked.
CarriesResults(doc, now) ==
    /\ doc.status = VERIFIED
    /\ "verifiedAt" \in DOMAIN doc /\ doc.verifiedAt = now
    /\ Truthy(Get(doc, "imei1")) => "result1" \in DOMAIN doc
    /\ Truthy(Get(doc, "imei2")) => "result2" \in DOMAIN doc

Untouched(doc) ==
    /\ doc.status = PENDING
    /\ DOMAIN doc \cap {"result1", "result2", "verifiedAt"} = {}

\* C17: an item's results, timestamp and status are written in one write;
\* at every point of a run, an aborted run included, the items of the
\* snapshot it has processed are verified and carry their results and the
\* run's timestamp, and every later item of the snapshot is as the query
\* found it: pending, without result and timestamp.
C17_VerifiedPrefix ==
    /\ [](\A r \in DOMAIN run :
            \A i \in 1..Len(run[r].docs_to_process) :
                LET d == run[r].docs_to_process[i] IN
                IF i <= run[r].processed_count
                THEN CarriesResults(Item(d.id), clock) /\ run[r].writes[i] = d.id
                ELSE Untouched(Item(d.id)) /\ Item(d.id) = d.data)
    /\ [][\A i \in 1..Len(imeis) :
            imeis'[i] # imeis[i] =>
                Untouched(imeis[i]) /\ CarriesResults(imeis'[i], clock)]_vars

\* The run was aborted by the failed write of its second item, after the
\* calls for it: the first item is verified with its result, the second is
\* pending without any.
C17_Witness ==
    \E r \in DOMAIN run :
        /\ run[r].pc = "except" /\ run[r].exc = ErrStoreWrite
        /\ run[r].processed_count = 1 /\ Len(run[r].docs_to_process) = 2
        /\ \E i \in 1..Len(run[r].calls) : run[r].calls[i].doc = "C"
        /\ CarriesResults(Item("A"), clock) /\ "result1" \in DOMAIN Item("A")
        /\ Untouched(Item("C"))

\* C18: nothing keeps two runs on the same batch apart: an item that is
\* pending when both query is in both snapshots and can be written by both;
\* an item is written by two runs only if it was in both snapshots and each
\* of the two had the other at work during its own run, so a run that was
\* alone shares a written item with no other run.
C18_DoubleWriteNeedsOverlap ==
    \A p, q \in DOMAIN run :
        p # q =>
            /\ \A id \in Range(run[p].writes) \cap Range(run[q].writes) :
                   /\ id \in run[p].eligible \cap run[q].eligible
                   /\ ~run[p].alone /\ ~run[q].alone
            /\ run[p].alone => Range(run[p].writes) \cap Range(run[q].writes) = {}

\* Both runs have written item A and returned; the service had answered
\* "registered" to one of them, and the item carries the other's result.
C18_Witness ==
    /\ \A p \in DOMAIN run : Returned(p) /\ run[p].writes = <<"A">>
    /\ \E p \in DOMAIN run : Len(run[p].calls) = 1 /\ run[p].calls[1].ans = "ok"
    /\ Item("A").status = VERIFIED
    /\ Get(Item("A"), "result1") = ErrorDeConexion

\* ------------------------------------------------ check_imei_status, C19
\* A subject that is missing, empty or made of whitespace only.
Blank(imei) == imei = None \/ \A i \in 1..Len(imei) : imei[i] = " "

\* Spellings of one word that differ by case only.
Spellings ==
    { {"no", "No", "NO"}, {"está", "ESTÁ"}, {"inscrito", "INSCRITO"},
      {"equipo", "Equipo", "EQUIPO"}, {"se", "SE"}, {"encuentra", "ENCUENTRA"} }
SameWord(a, b) == a = b \/ \E v \in Spellings : a \in v /\ b \in v

\* The text holds the phrase, whatever the case of its letters.
HoldsPhrase(text, phrase) ==
    \E i \in 0..(Len(text) - Len(phrase)) :
        \A k \in 1..Len(phrase) : SameWord(text[i + k], phrase[k])

\* C19: check_imei_status returns for every subject and every answer: for a
\* missing, empty or whitespace-only subject 'Vacío', without a request;
\* otherwise it posts the stripped subject, and for an answer with a text:
\* 'Equipo NO inscrito' when the text holds 'no está inscrito' in any case
\* (looked for first), else 'Equipo inscrito correctamente' when it holds
\* 'equipo se encuentra inscrito', else the text as it is; an answer without
\* text counts as 'Error: Respuesta inesperada', a failed request gives its
\* sentinel.
C19_TotalClassifier ==
    probe.pc = "returned" =>
        IF Blank(probe.imei)
        THEN probe.result = Vacio /\ probe.posted = None
        ELSE /\ probe.posted # None /\ probe.posted # <<>>
             /\ probe.ans.kind = "ok" =>
                  probe.result =
                      IF HoldsPhrase(probe.ans.resultado, PatNoInscrito) THEN EquipoNoInscrito
                      ELSE IF HoldsPhrase(probe.ans.resultado, PatInscrito) THEN EquipoInscrito
                      ELSE probe.ans.resultado
             /\ probe.ans.kind = "nofield" => probe.result = RespuestaInesperada
             /\ probe.ans.kind \in {"network", "broken"} =>
                  probe.result = SentinelOf(probe.ans.kind)

\* The call returned 'Equipo NO inscrito' for an IMEI with whitespace around
\* it and a text that holds both phrases.
C19_Witness ==
    /\ probe.pc = "returned"
    /\ probe.imei = <<" ">> \o Imei111 /\ probe.posted = Imei111
    /\ probe.ans.kind = "ok"
    /\ HoldsPhrase(probe.ans.resultado, PatInscrito)
    /\ HoldsPhrase(probe.ans.resultado, PatNoInscrito)
    /\ probe.result = EquipoNoInscrito

ConfigErrors == {ErrCredentials, ErrBatchId, ImpErrCredentials, ImpErrBatchId}
Stores == <<imei_batches, imeis, pending_imports, import_items, registros, companies>>

\* C13: in both runners a run that lacks BATCH_ID or the store credentials
\* raises to its caller without having read or written the store, called
\* the verification or the serial-number service, or notified anybody: it
\* goes from its start to the handler, which has no batch reference to
\* update, and every step it takes leaves the store as it is.
C13_ConfigErrorIsFatal ==
    /\ [](\A r \in DOMAIN run :
            run[r].exc \in ConfigErrors =>
                /\ run[r].pc \in {"except", "done"}
                /\ ~run[r].batch_ref /\ ~run[r].queried
                /\ run[r].writes = <<>> /\ run[r].calls = <<>>
                /\ run[r].notified = "none"
                /\ Ended(r) => run[r].outcome = "raised" /\ run[r].marked = "no_batch_ref")
    /\ [](imp.exc \in ConfigErrors =>
            /\ imp.pc \in {"except", "done"}
            /\ ~imp.batch_ref
            /\ imp.batch_data = << >> /\ imp.docs_to_process = <<>>
            /\ imp.final_batch = <<>> /\ imp.processed_count = 0
            /\ imp.emailed = "none"
            /\ imp.pc = "done" => imp.outcome = "raised" /\ imp.marked = "no_batch_ref")
    /\ [][((\E r \in DOMAIN run : run'[r] # run[r] /\ run'[r].exc \in ConfigErrors)
             \/ (imp' # imp /\ imp'.exc \in ConfigErrors))
          => Stores' = Stores]_vars

\* A verification run has raised for want of BATCH_ID on a batch with two
\* pending items.
C13_Witness ==
    \E r \in DOMAIN run :
        /\ Raised(r) /\ run[r].exc = ErrBatchId
        /\ HasBatch /\ Batch.status = "received"
        /\ Len(imeis) = 2 /\ \A i \in 1..2 : imeis[i].status = PENDING

ImportBatch == pending_imports[BatchId]

\* ------------------------------------------------- import runner, C14, C20
HasImportBatch == BatchId \in DOMAIN pending_imports
ImpEnded == imp.pc = "done"
ImpReturned == ImpEnded /\ imp.outcome = "returned"
ImpRaised == ImpEnded /\ imp.outcome = "raised"

\* Of the registrations the run has staged, none is in 'registros' or all are.
AllOrNone ==
    \/ Range(imp.final_batch) \cap registros = {}
    \/ Range(imp.final_batch) \subseteq registros

\* C14 as stated: the registrations a run has prepared are in 'registros'
\* all together or not at all; a run that fails before or at the commit
\* leaves 'registros' as it was and marks the batch failed.
C14_AtomicCommitMarksFailed ==
    /\ [](AllOrNone)
    /\ [][~imp'.committed => registros' = registros]_vars
    /\ []((ImpRaised /\ ~imp.committed) =>
            HasImportBatch /\ ImportBatch.status = "failed")

\* C14 amended: the registrations a run has prepared are in 'registros' all
\* together or not at all, and only the step of the commit changes
\* 'registros'; a run that fails before or at the commit leaves it as it
\* was, and the batch is failed with the error's text when the run had
\* its batch reference and the handler's write went through (a run without
\* BATCH_ID or credentials, or whose handler's write fails, marks nothing).
C14_AtomicCommit ==
    /\ [](AllOrNone)
    /\ [][~imp'.committed => registros' = registros]_vars
    /\ [][imp'.committed /\ ~imp.committed =>
             registros' = Commit(registros, imp.final_batch)
             /\ Range(imp.final_batch) \subseteq registros']_vars
    /\ []((ImpRaised /\ ~imp.committed) =>
            /\ imp.marked = "failed" =>
                   /\ HasImportBatch /\ ImportBatch.status = "failed"
                   /\ ImportBatch.error = imp.exc
            /\ imp.marked = "failed" <=>
                   (imp.batch_ref /\ HasImportBatch /\ imp.marked # "update_failed"))

\* The second run staged two registrations and failed at the commit:
\* 'registros' holds those of the first run only, and the batch is failed.
C14_Witness ==
    /\ ImpRaised /\ ~imp.committed
    /\ imp.exc = ErrStoreWrite
    /\ Len(imp.final_batch) = 2 /\ clock = 2
    /\ Cardinality(registros) = 2
    /\ Range(imp.final_batch) \cap registros = {}
    /\ ImportBatch.status = "failed"

\* The run has written status completed to the import batch (lines 82, 142).
ImpWroteCompleted ==
    imp.pc = "email" \/ ImpReturned \/ imp.emailed # "none"

\* C20: a run of the import runner that has marked the batch completed has
\* created one registration for each item of the batch and, when the
\* processing method is 'internal', has taken that many credits from the
\* company, in one decrement made after the commit and before the batch is
\* marked completed; with another processing method the credits stay as
\* they were.
C20_CreditsMatchRegistrations ==
    /\ [](ImpWroteCompleted =>
            /\ Len(imp.final_batch) = Len(imp.docs_to_process)
            /\ imp.docs_to_process = import_items
            /\ Range(imp.final_batch) \subseteq registros
            /\ Cardinality(registros \ imp.registros0) = Len(imp.docs_to_process)
            /\ CreditsOf(companies) =
                   IF IsInternal(imp.batch_data)
                   THEN imp.credits0 - Len(imp.docs_to_process)
                   ELSE imp.credits0)
    /\ [][companies' # companies =>
            /\ IsInternal(imp.batch_data)
            /\ imp.committed /\ imp.pc = "credits" /\ imp'.pc = "complete"
            /\ ~ImpWroteCompleted
            /\ pending_imports' = pending_imports
            /\ CreditsOf(companies') = CreditsOf(companies) - Len(imp.docs_to_process)]_vars

\* An 'internal' run on a batch of two items has returned: two
\* registrations, two credits less.
C20_Witness ==
    /\ ImpReturned /\ IsInternal(imp.batch_data)
    /\ Len(import_items) = 2
    /\ Cardinality(registros) = 2
    /\ CreditsOf(companies) = InitialCredits - 2
    /\ ImportBatch.status = "completed"

\* C7: a run of the import runner that finds the batch already completed by
\* an earlier run creates no record in 'registros' and takes no credit from
\* the company.
C7_RerunIsNoOp ==
    imp.status0 = "completed" =>
        /\ registros = imp.registros0
        /\ CreditsOf(companies) = imp.credits0

\* C8: once the batch is marked completed and the summary-email step is
\* gone through, whatever the request does the batch stays completed and
\* the run does not raise.
C8_EmailFailureNonFatal ==
    imp.emailed # "none" =>
        /\ ImportBatch.status = "completed"
        /\ imp.outcome # "raised"

\* ------------------------------------------- follow-up script, C21, C22
SeqRange(s) == {s[i] : i \in 1..Len(s)}

WaitOf(level) ==
    CASE level = 1 -> HoursLevel1
      [] level = 2 -> HoursLevel2
      [] level = 3 -> HoursLevel3
      [] OTHER     -> 0

\* The step is the cancellation of order i.
CancelsOrder(i) ==
    /\ orders'[i].status = CANCELADO
    /\ orders'[i].followUpLevel = CancelledLevel
    /\ orders[i].status = PENDIENTE

\* The step raises the level of order i by one, after the e-mail of that
\* level went out in this very step and the wait of that level is over.
OneStepAfterMail(i) ==
    /\ "followUpLevel" \in DOMAIN orders[i]
    /\ orders'[i] = Update(orders[i],
                           [followUpLevel |-> orders[i].followUpLevel + 1])
    /\ orders'[i].followUpLevel \in 1..LastLevel
    /\ fu'.emails = Append(fu.emails,
                           [id |-> OrderIds[i],
                            level |-> orders'[i].followUpLevel,
                            sent |-> TRUE])
    /\ fu.now_utc - orders[i].createdAt >= WaitOf(orders'[i].followUpLevel)
    /\ OrderIds[i] \notin SeqRange(fu.updated)

FuDoc == fu.docs_to_process[fu.index]

Registered(ans) ==
    ans.kind = "ok" /\ Contains(Lower(ans.resultado), PatInscrito)

\* The step cancels the order the loop is at and sends nothing, or the write
\* to the store fails and ends the run.
CancelsInsteadOfMail ==
    /\ fu'.emails = fu.emails
    /\ \/ /\ CancelsOrder(OrderIndex(FuDoc.id))
          /\ FuDoc.id \in fu'.cancelled
       \/ fu'.outcome = "raised" /\ orders' = orders

\* C22: the cancellation checks come before the reminder.  An order with a
\* twin (same IMEI and customer e-mail) that is no longer 'Pendiente de
\* Pago', or whose IMEI the external service reports as registered, is set
\* to 'Cancelado' with followUpLevel 4 and gets no e-mail, in that run or in
\* a later one; a connection error of the external check counts as not
\* registered: the order is not cancelled and the run goes on to the
\* reminder.
C22_CancelBeforeReminder ==
    /\ [](\A id \in fu.cancelled :
            /\ orders[OrderIndex(id)].status = CANCELADO
            /\ orders[OrderIndex(id)].followUpLevel = CancelledLevel
            /\ \A k \in 1..Len(fu.emails) : fu.emails[k].id # id)
    /\ [][ /\ (fu.pc = "paid" /\ fu'.outcome # "raised"
                 /\ AnyPaid(orders, FuDoc.data.imei1, FuDoc.data.customerEmail))
              => CancelsInsteadOfMail
           /\ (fu.pc = "external" /\ Registered(fu'.external))
              => CancelsInsteadOfMail
           /\ (fu.pc = "external" /\ fu'.external.kind = "network")
              => fu'.pc = "remind" /\ orders' = orders
           /\ Len(fu'.emails) > Len(fu.emails)
              => /\ fu.pc = "remind"
                 /\ ~Registered(fu.external)
                 /\ ~AnyPaid(orders, FuDoc.data.imei1, FuDoc.data.customerEmail)
                 /\ orders[OrderIndex(FuDoc.id)].status = PENDIENTE
         ]_vars

\* A later run leaves out the order cancelled before it, meets a connection
\* error of the external check, sends the reminder all the same and returns.
C22_Witness ==
    /\ fu.runs >= 2
    /\ fu.outcome = "returned"
    /\ \E id \in fu.cancelled :
        \A k \in 1..Len(fu.docs_to_process) : fu.docs_to_process[k].id # id
    /\ fu.external.kind = "network"
    /\ \E k \in 1..Len(fu.emails) : fu.emails[k].sent

\* ------------------------------------------------------------ main.py, C23
\* The document the loop of main.py is at.
WebDoc == web.docs_a_procesar[web.index]

\* The result says that the device is registered.
ResultRegistered(resultado) ==
    /\ ~Contains(Lower(resultado), <<"no", " ", "se", " ", "encuentra", " ", "inscrito">>)
    /\ ~Contains(Lower(resultado), <<"error">>)

\* The verified document is one the query selected and it has an IMEI.
VerifiedHasImei ==
    web.last.id # "none" =>
        /\ web_docs[WebIndex(web.last.id)].status = EN_PROCESO
        /\ Truthy(Get(web_docs[WebIndex(web.last.id)], "imei1"))

\* What a step of main.py does to the documents: a document without imei1 is
\* passed over, the answer of the order API never keeps the update away, the
\* update writes the result and the date, and nothing else is ever written.
WebFrame ==
    /\ (web.pc = "verify" /\ ~Truthy(Get(WebDoc.data, "imei1")))
       => web_docs' = web_docs /\ web'.last = web.last
    /\ web.pc = "process" => web'.pc = "update" /\ web_docs' = web_docs
    /\ (web.pc = "update" /\ web'.outcome # "raised")
       => /\ web'.last.updated
          /\ web_docs'[WebIndex(WebDoc.id)].resultado_verificacion
                = web.last.resultado
          /\ web_docs'[WebIndex(WebDoc.id)].fecha_verificacion = web.now
    /\ Len(web_docs') = Len(web_docs)
    /\ \A i \in 1..Len(web_docs) :
        /\ web_docs'[i].status = web_docs[i].status
        /\ web_docs'[i] # web_docs[i] =>
            /\ web.pc = "update" /\ WebIds[i] = WebDoc.id
            /\ Truthy(Get(web_docs[i], "imei1"))
            /\ \A k \in DOMAIN web_docs[i] :
                k \notin {"resultado_verificacion", "fecha_verificacion"}
                => k \in DOMAIN web_docs'[i] /\ web_docs'[i][k] = web_docs[i][k]
            /\ DOMAIN web_docs'[i] = DOMAIN web_docs[i]
                \cup {"resultado_verificacion", "fecha_verificacion"}

\* C23 as stated: for each 'En Proceso' document with an imei1 the order API
\* is called if and only if the verification result is registered; the
\* document is always updated with result and date, the status is never
\* written, a document without imei1 is left unchanged.
C23_ApiCalledIffRegistered ==
    /\ [](VerifiedHasImei
          /\ (web.pc = "update" =>
                (web.last.request # "none"
                    <=> ResultRegistered(web.last.resultado))))
    /\ [][WebFrame]_vars

\* C23, amended: the order API is called if and only if the result is
\* registered and REGISTRATION_API_KEY is set; the rest as stated.
C23_ApiCalledIffRegisteredAndKey ==
    /\ [](VerifiedHasImei
          /\ (web.pc = "update" =>
                (web.last.request # "none"
                    <=> ResultRegistered(web.last.resultado) /\ web.api_key)))
    /\ [][WebFrame]_vars

\* A run with a document without imei1 among the selected ones has called
\* the order API for a registered device, got a failure, saved the result
\* all the same and returned.
C23_Witness ==
    /\ web.outcome = "returned"
    /\ \E k \in 1..Len(web.docs_a_procesar) :
        ~Truthy(Get(web.docs_a_procesar[k].data, "imei1"))
    /\ web.last.id # "none"
    /\ web.last.request = "failed"
    /\ web.last.updated
    /\ web_docs[WebIndex(web.last.id)].resultado_verificacion = WebInscrito
    /\ web_docs[WebIndex(web.last.id)].status = EN_PROCESO

\* ---------------------------------------------------------- script.py, C24
\* The column of the sheet under this header cell.
ColumnOf(header) == CHOOSE c \in 1..Len(hoja[1]) : hoja[1][c] = header

\* The row of the sheet whose record the loop is at: the header is row 1.
SheetRowAt == planilla.indice + 2

\* The row the loop is at is 'En Proceso' and has an IMEI.
RowEligible ==
    /\ hoja[SheetRowAt][ColumnOf(ColumnaEstado)] = CeldaEnProceso
    /\ hoja[SheetRowAt][ColumnOf(ColumnaImei)] # <<>>

\* The step verifies an IMEI.
VerifiesNow == Len(planilla'.verified) > Len(planilla.verified)

ResultNow == planilla'.verified[Len(planilla'.verified)].resultado

StateCellAfter == hoja'[SheetRowAt][ColumnOf(ColumnaEstado)]

\* C24: only rows whose state is 'En Proceso' and whose IMEI is not empty are
\* verified or modified; the state cell of such a row becomes 'Listo' exactly
\* when the result is registered, takes the error message when the result
\* contains 'error', and stays 'En Proceso' when the device is not
\* registered; every other row and every other cell stays as it is.
C24_OnlyStateCellOfEligibleRow ==
    [][ /\ Len(hoja') = Len(hoja)
        /\ \A r \in 1..Len(hoja) : Len(hoja'[r]) = Len(hoja[r])
        /\ planilla.pc # "row" => hoja' = hoja /\ ~VerifiesNow
        /\ planilla.pc = "row" =>
            /\ VerifiesNow <=> RowEligible
            /\ hoja' # hoja => RowEligible
            /\ \A r \in 1..Len(hoja), c \in 1..Len(hoja[1]) :
                <<r, c>> # <<SheetRowAt, ColumnOf(ColumnaEstado)>>
                => hoja'[r][c] = hoja[r][c]
            /\ (RowEligible /\ planilla'.outcome # "raised") =>
                /\ StateCellAfter = CeldaListo <=> ResultRegistered(ResultNow)
                /\ Contains(Lower(ResultNow), <<"error">>)
                   => StateCellAfter = ResultNow
                /\ (~ResultRegistered(ResultNow)
                      /\ ~Contains(Lower(ResultNow), <<"error">>))
                   => StateCellAfter = CeldaEnProceso
      ]_vars

\* One run has set the state of a registered row to 'Listo' and has written
\* the error message into the state cell of another, next to a note that is
\* still there.
C24_Witness ==
    /\ planilla.outcome = "returned"
    /\ \E j, k \in 1..Len(planilla.verified) :
        /\ planilla.verified[j].resultado = WebInscrito
        /\ hoja[planilla.verified[j].fila][ColumnOf(ColumnaEstado)] = CeldaListo
        /\ planilla.verified[k].resultado = WebTimeout
        /\ hoja[planilla.verified[k].fila][ColumnOf(ColumnaEstado)] = WebTimeout
        /\ hoja[planilla.verified[k].fila][ColumnOf(ColumnaNota)] = CeldaNota

\* ------------------------------------------------ report script, C25
\* The k-th row appended in this run is the row of the k-th selected record.
RowAppendedFor(k) ==
    /\ report.rows0 + k <= Len(worksheet)
    /\ LET row == worksheet[report.rows0 + k]
           reg == report.docs_a_procesar[k].data
       IN /\ row[1] = reg.orderNumber.v
          /\ row[2] = reg.imei1.v
          /\ row[7] = <<"Recibido">>

\* The step sets the status of record i, the one the loop is at, from
\* 'Recibido' to 'En Proceso', after its row was appended in this run.
MovesAfterAppend(i) ==
    /\ report.pc = "update"
    /\ ReportIds[i] = report.docs_a_procesar[report.index].id
    /\ rep_docs[i].status = RECIBIDO
    /\ rep_docs'[i] = Update(rep_docs[i], [status |-> ENPROCESO])
    /\ RowAppendedFor(report.index)

\* C25: no record moves from 'Recibido' to 'En Proceso' unless its row was
\* appended to the spreadsheet earlier in the same run: all rows are appended
\* before any status update, a failed append leaves every record's status
\* unchanged, and a failed update of one record does not stop the updates of
\* the remaining records.
C25_AppendBeforeStatus ==
    [][ /\ Len(rep_docs') = Len(rep_docs)
        /\ \A i \in 1..Len(rep_docs) :
            rep_docs'[i] # rep_docs[i] => MovesAfterAppend(i)
        /\ worksheet' # worksheet =>
            /\ report.pc = "append"
            /\ report.updated = <<>> /\ report.failed = <<>>
            /\ rep_docs' = rep_docs
            /\ Len(worksheet') = Len(worksheet) + Len(report.docs_a_procesar)
            /\ SubSeq(worksheet', 1, Len(worksheet)) = worksheet
        /\ (report.pc = "append" /\ report'.outcome = "raised") =>
            rep_docs' = rep_docs /\ report'.pc = "done"
        /\ (report.pc = "update" /\ rep_docs' = rep_docs) =>
            /\ report'.outcome # "raised"
            /\ report.index < Len(report.docs_a_procesar) =>
                report'.pc = "update" /\ report'.index = report.index + 1
      ]_vars

\* The update of the first record failed, the second record was updated all
\* the same, both rows are in the sheet, and main() returned.
C25_Witness ==
    /\ report.outcome = "returned"
    /\ Len(report.docs_a_procesar) = 2
    /\ report.failed = <<report.docs_a_procesar[1].id>>
    /\ report.updated = <<report.docs_a_procesar[2].id>>
    /\ rep_docs[ReportIndex(report.docs_a_procesar[1].id)].status = RECIBIDO
    /\ rep_docs[ReportIndex(report.docs_a_procesar[2].id)].status = ENPROCESO
    /\ RowAppendedFor(1) /\ RowAppendedFor(2)

====
